---- MODULE Spec2Model ----
(***************************************************************************)
(* Photo Hunt (parkland-hunt): the hunt lifecycle, the membership and      *)
(* submission ledgers and the results tally, as implemented by the Home    *)
(* component.  The component exists in two iterations in the repository:   *)
(* the newer one (prompt shuffle, skip-voting rule) is the TypeScript text *)
(* carried by supabase/migrations/20260207_fix_votes_rls.sql, the older    *)
(* one is src/app/page.tsx.  Line numbers below refer to the newer one     *)
(* unless page.tsx is named.                                               *)
(*                                                                         *)
(* These specifications share the module:                                  *)
(*   Spec       hunt status machine: startGame, finishHunt, undoFinish,    *)
(*              transitionToFinished, change events, stale local views     *)
(*   SpecVote   the voting walk: castVote, skip, transitionToFinished      *)
(*   SpecJoin   membership ledger: createHunt and the ensure-membership    *)
(*              effect                                                     *)
(*   SpecSub    submission ledger: ensureSubmission, the own-submissions   *)
(*              load and reloads                                           *)
(*   SpecTally  the results effect (vote counts, winners, leaderboard)     *)
(*   SpecFail   the status machine with its failure branches and reports   *)
(*   SpecPhoto  attaching a photo: onPromptClick, onFileSelected,          *)
(*              getSignedUrlWithRetry (SpecPhotoLive: with fairness)       *)
(*   SpecDecide the finishHunt decision over rows with and without photo   *)
(*   SpecBoot   launching the page: the boot and ensure-player effects and  *)
(*              the own-submissions load after a restart                   *)
(*   SpecHome   choosing a hunt: joinHuntByCode, createHunt, resumeGame,    *)
(*              changeHunt and the hunt and prompts loads they set off     *)
(*   SpecCast   the voting walk with the votes table kept by rows          *)
(*   SpecRejoin the ensure-membership effect over whole membership rows    *)
(*   SpecLeave  leaveGame, changeHunt and resumeGame beside finishHunt     *)
(*              (SpecLeaveLive: with fairness)                             *)
(*   SpecRow    the writes to whole hunts rows                             *)
(*   SpecSort   sortedPrompts over the statuses of the prompts             *)
(*   SpecShuffle the play order set by the load prompts effect             *)
(*   SpecName   updateDisplayName                                          *)
(*   SpecClick  the voting walk with several castVote calls in flight      *)
(*   SpecSwitch the own-submissions load while the page changes hunts      *)
(* Spec and SpecVote keep the submissions table as the set of its          *)
(* (player, prompt) pairs and the votes table as its number of rows;       *)
(* SpecSub and SpecTally keep the rows.                                    *)
(***************************************************************************)
EXTENDS Integers, Sequences, FiniteSets, TLC

\* ------------------------------------------------------------------------
\* Universe
\* ------------------------------------------------------------------------
\* One client (device) per player.
Players == {"p1", "p2"}
Prompts == {"a", "b"}
\* Hunt.status (type Hunt)
Statuses == {"lobby", "active", "voting", "finished"}
\* "none" stands for JavaScript null / undefined / a missing row
NONE == "none"

\* Cap on the number of rows of the votes table (Spec, SpecVote)
MaxVotes == 2
\* Cap on the number of rows of the submissions table (SpecSub, SpecTally)
MaxRows == 3
\* Cap on the number of rows of the votes table (SpecTally)
MaxVoteRows == 3

VARIABLES
  \* ---- shared ledgers ----
  status,          \* hunts.status of the hunt
  finished_at,     \* hunt_players.finished_at per player: NONE (no row), "null", "set"
  submissions,     \* submissions rows of the hunt, as <<player_id, prompt_id>>
  votes,           \* number of rows of the votes table
  inbox,           \* per client: the latest undelivered UPDATE event of the hunts row
  \* ---- per-client React state ----
  hunt,            \* hunt?.status, NONE while hunt is null
  finishedAt,      \* finishedAt state (TRUE: non-null)
  prompts,         \* prompts state: the shuffled play order, <<>> until loaded
  pc,              \* in-flight startGame / finishHunt call
  fhTarget,        \* finishHunt: the status it decided to write
  vload,           \* the voting-phase load effect: "idle", "run", "urls"
  allSubmissions,  \* allSubmissions state
  currentPromptIndex,
  votedPromptIds,
  cv,              \* in-flight castVote: the closure it will call advanceToNextPrompt with
  tf,              \* in-flight transitionToFinished
  walk,            \* history of the current voting walk
  \* ---- membership (SpecJoin) ----
  hunt_players,    \* hunt_players rows of the hunt, in insertion order
  created,         \* the hunts row exists (its code can be joined)
  hostPlayer,      \* the player whose "Join as host" upsert succeeded, else NONE
  jpc,             \* per session: position in createHunt / the membership effect
  isHost,          \* per session: isHost state
  \* ---- submission rows (SpecSub, SpecTally) ----
  submission_rows,        \* submissions rows in insertion order; a row's id is its index
  submissionIdByPromptId, \* per session: prompt -> submission id, 0: no entry
  ensuring,               \* per session: the prompt whose ensureSubmission insert is in flight
  ownLoad,                \* per session: the own-submissions load: its stage ("idle",
                          \*   "run", "got") and the nextSubmissionIds it built
  returned,               \* per prompt: the ids ensureSubmission has returned to the player
  \* ---- results (SpecTally) ----
  vote_rows,       \* votes rows in insertion order, as their submission_id
  results,         \* per client: results state
  \* ---- error reports (SpecFail) ----
  reported,        \* per client: its last failed call and how the call reported it:
                   \*   "setError" (the error state shown on every screen) or
                   \*   "console.error"
  \* ---- photos (SpecPhoto, SpecDecide) ----
  photo_path,          \* submissions.photo_path per (player, prompt): 0 is null, else a path
  blobs,               \* the paths the photos bucket holds
  uploads,             \* number of paths made so far (makeId gives a fresh one each time)
  statusByPromptId,    \* the attaching client's statusByPromptId
  photoUrlByPromptId,  \* the attaching client's photoUrlByPromptId: 0 is none, else the path signed
  attach,              \* the attaching client's onFileSelected call in flight
  \* ---- launches of one browser (SpecBoot) ----
  players,         \* number of rows of the players table; their ids are 1..players
  stored,          \* localStorage player_id: 0 is none
  playerId,        \* the page's playerId state: 0 is null
  ensurePlayer,    \* the page's insert into players: "idle" or "insert" (in flight)
  own_rows,        \* the hunt's submissions rows for one prompt, in insertion order
  ownId,           \* the page's submissionIdByPromptId of that prompt: 0 is none
  ownStatus,       \* the page's statusByPromptId of that prompt
  bootLoads,       \* results of own-submissions loads still to be applied
  \* ---- choosing a hunt (SpecHome): one page, hunts with different packs ----
  hunts,           \* hunts table: the pack of each hunt, the hunt's id is its index
  placed,          \* submissions rows as [hunt_id, pack]: pack is the pack of row.prompt_id
  huntId,          \* huntId state: 0 is null
  homeHunt,        \* hunt state: the id of the hunts row it holds, 0 is null
  homePrompts,     \* prompts state: the pack whose prompts it lists, NONE is []
  huntLoads,       \* hunt selects sent by the load effect and not yet answered
  promptLoads,     \* prompts selects sent by the load effect and not yet answered
  joining,         \* joinHuntByCode: the code of its select in flight, NONE is no call
  createPack,      \* createPack state: "" until the packs load picks the first pack
  error,           \* error state: NONE is null
  \* ---- the votes table by rows (SpecCast) ----
  ballots,         \* votes rows in insertion order: [submission_id, player_id, category]
  casting,         \* per client: the row its castVote call in flight inserts
  \* ---- the player's name (SpecName) ----
  playerName       \* per client: playerName state, as a sequence of characters

lifeVars == <<status, finished_at, submissions, inbox, hunt, finishedAt, prompts, pc,
              fhTarget, tf>>
walkVars == <<votes, vload, allSubmissions, currentPromptIndex, votedPromptIds, cv, walk>>

joinVars == <<hunt_players, created, hostPlayer, jpc, isHost>>

subVars == <<submission_rows, submissionIdByPromptId, ensuring, ownLoad, returned>>
tallyVars == <<vote_rows, results>>

failVars == <<reported>>
photoVars == <<photo_path, blobs, uploads, statusByPromptId, photoUrlByPromptId, attach>>

bootVars == <<players, stored, playerId, ensurePlayer, own_rows, ownId, ownStatus,
              bootLoads>>
homeVars == <<hunts, placed, huntId, homeHunt, homePrompts, huntLoads, promptLoads,
              joining, createPack, error>>
castVars == <<ballots, casting>>
nameVars == <<playerName>>

vars == <<lifeVars, walkVars, joinVars, subVars, tallyVars, failVars, photoVars, bootVars,
          homeVars, castVars, nameVars>>

\* ------------------------------------------------------------------------
\* Helpers
\* ------------------------------------------------------------------------
Perms(S) == {s \in [1..Cardinality(S) -> S] : \A x \in S : \E i \in DOMAIN s : s[i] = x}

\* setHunt((prev) => (prev ? { ...prev, status } : prev)) and the realtime
\* handler's setHunt((prev) => (prev ? { ...prev, ...payload.new } : null))
MergeHunt(prev, new) == IF prev = NONE THEN NONE ELSE new

\* promptsWithSubmissions
promptsWithSubmissions(ps, subs) ==
  SelectSeq(ps, LAMBDA p : \E s \in subs : s[2] = p)

\* no castVote in flight
NoVote == [cur |-> NONE, beforeLast |-> FALSE]

\* supabase.from("hunts").update({ status }).eq("id", huntId): unconditional on
\* the row's current status.  The change feed publishes the new row to every
\* subscribed client; delivery is best effort, and an event not yet delivered
\* when the next one is published is superseded by it.
UpdateHuntStatus(new) ==
  /\ status' = new
  /\ inbox' = [c \in Players |-> new]

\* Which screen the component renders (the chain of early returns of the UI).
Screen(c) ==
  CASE hunt[c] = "lobby" -> "lobby"
    [] hunt[c] = "voting" -> "voting"
    [] hunt[c] = "finished" -> "finished"
    [] OTHER -> "active"

\* ------------------------------------------------------------------------
\* Spec: the hunt status machine
\* ------------------------------------------------------------------------
\* State right after p1's createHunt and p2's joinHuntByCode have returned:
\* the hunt row is in lobby, the host's membership row exists, both clients
\* have huntId set and every effect keyed on huntId is still to run.
\* A handler has at most one call in flight per client.  A failed write that
\* only calls setError or console.error and returns changes nothing of
\* Spec and is left out here (SpecFail has them); failures that change the
\* course of a handler are actions of their own.  The voting screen is left through transitionToFinished
\* ("View Results", shown while the submissions of the voting phase are not
\* loaded); the walk over the prompts is SpecVote.
Host == "p1"

InitLife ==
  /\ status = "lobby"
  /\ finished_at = [p \in Players |-> IF p = Host THEN "null" ELSE NONE]
  /\ submissions = {}
  /\ inbox = [c \in Players |-> NONE]
  /\ hunt = [c \in Players |-> NONE]
  /\ finishedAt = [c \in Players |-> FALSE]
  /\ prompts = [c \in Players |-> <<>>]
  /\ pc = [c \in Players |-> "idle"]
  /\ fhTarget = [c \in Players |-> NONE]
  /\ tf = [c \in Players |-> "idle"]

ParkedWalk ==
  /\ votes = 0
  /\ vload = [c \in Players |-> "idle"]
  /\ allSubmissions = [c \in Players |-> {}]
  /\ currentPromptIndex = [c \in Players |-> 0]
  /\ votedPromptIds = [c \in Players |-> {}]
  /\ cv = [c \in Players |-> NoVote]
  /\ walk = [c \in Players |-> [adv |-> 0]]

\* A browser session (a tab); localStorage gives it its player id, and the
\* tabs of one browser share it.
Sessions == {"s1", "s2", "s3"}
Owner == [s \in Sessions |-> IF s = "s3" THEN "p2" ELSE "p1"]

ParkedJoin ==
  /\ hunt_players = <<>>
  /\ created = FALSE
  /\ hostPlayer = NONE
  /\ jpc = [s \in Sessions |-> "home"]
  /\ isHost = [s \in Sessions |-> FALSE]

\* setSubmissionIdByPromptId({})
NoIds == [p \in Prompts |-> 0]

OwnLoad(stage, ids) == [stage |-> stage, ids |-> ids]

ParkedSub ==
  /\ submission_rows = <<>>
  /\ submissionIdByPromptId = [s \in Sessions |-> NoIds]
  /\ ensuring = [s \in Sessions |-> NONE]
  /\ ownLoad = [s \in Sessions |-> OwnLoad("idle", NoIds)]
  /\ returned = [p \in Prompts |-> {}]

\* results state null
NoResults == [loaded |-> FALSE, promptWinners |-> <<>>, leaderboard |-> <<>>]

ParkedTally ==
  /\ vote_rows = <<>>
  /\ results = [c \in Players |-> NoResults]

\* nothing reported yet
NoReport == [call |-> NONE, how |-> NONE]

ParkedFail ==
  /\ reported = [c \in Players |-> NoReport]

\* statusByPromptId of a prompt never touched (the UI reads ?? "idle")
NoStatus == [p \in Prompts |-> "idle"]
NoPhotos == [k \in Players \X Prompts |-> 0]
NoUrls == [p \in Prompts |-> 0]
\* no onFileSelected call in flight
NoAttach == [stage |-> "idle", prompt |-> NONE, path |-> 0, i |-> 0]

ParkedPhoto ==
  /\ photo_path = NoPhotos
  /\ blobs = {}
  /\ uploads = 0
  /\ statusByPromptId = NoStatus
  /\ photoUrlByPromptId = NoUrls
  /\ attach = NoAttach

\* no castVote call in flight
NoBallot == [submission_id |-> NONE, player_id |-> NONE, category |-> NONE]

\* no vote cast
ParkedCast ==
  /\ ballots = <<>>
  /\ casting = [c \in Players |-> NoBallot]

ParkedName ==
  playerName = [c \in Players |-> <<>>]

\* no hunt to choose, the page on its home screen
ParkedHome ==
  /\ hunts = <<>>
  /\ placed = {}
  /\ huntId = 0
  /\ homeHunt = 0
  /\ homePrompts = NONE
  /\ huntLoads = {}
  /\ promptLoads = {}
  /\ joining = NONE
  /\ createPack = ""
  /\ error = NONE

\* no page launched, nothing stored
ParkedBoot ==
  /\ players = 0
  /\ stored = 0
  /\ playerId = 0
  /\ ensurePlayer = "idle"
  /\ own_rows = <<>>
  /\ ownId = 0
  /\ ownStatus = "idle"
  /\ bootLoads = {}

\* ---- load hunt metadata (effect on huntId): setHunt(data) ----
LoadHunt(c) ==
  /\ hunt[c] = NONE
  /\ hunt' = [hunt EXCEPT ![c] = status]
  /\ UNCHANGED <<status, finished_at, submissions, inbox, finishedAt, prompts, pc,
                 fhTarget, tf>>
  /\ UNCHANGED <<walkVars, joinVars, subVars, tallyVars, failVars, photoVars, bootVars, homeVars, castVars, nameVars>>

\* ---- realtime UPDATE event for the hunts row ----
HuntChangeEvent(c) ==
  /\ inbox[c] # NONE
  /\ hunt' = [hunt EXCEPT ![c] = MergeHunt(@, inbox[c])]
  /\ inbox' = [inbox EXCEPT ![c] = NONE]
  /\ UNCHANGED <<status, finished_at, submissions, finishedAt, prompts, pc, fhTarget, tf>>
  /\ UNCHANGED <<walkVars, joinVars, subVars, tallyVars, failVars, photoVars, bootVars, homeVars, castVars, nameVars>>

\* ---- ensure membership (effect on huntId, playerId) ----
\* insert-if-absent, then setFinishedAt from the fresh row
EnsureMembership(c) ==
  /\ finished_at[c] = NONE
  /\ finished_at' = [finished_at EXCEPT ![c] = "null"]
  /\ finishedAt' = [finishedAt EXCEPT ![c] = FALSE]
  /\ UNCHANGED <<status, submissions, inbox, hunt, prompts, pc, fhTarget, tf>>
  /\ UNCHANGED <<walkVars, joinVars, subVars, tallyVars, failVars, photoVars, bootVars, homeVars, castVars, nameVars>>

\* ---- load prompts (effect on hunt?.pack), Fisher-Yates shuffled ----
LoadPrompts(c) ==
  /\ hunt[c] # NONE
  /\ prompts[c] = <<>>
  /\ \E order \in Perms(Prompts) : prompts' = [prompts EXCEPT ![c] = order]
  /\ UNCHANGED <<status, finished_at, submissions, inbox, hunt, finishedAt, pc,
                 fhTarget, tf>>
  /\ UNCHANGED <<walkVars, joinVars, subVars, tallyVars, failVars, photoVars, bootVars, homeVars, castVars, nameVars>>

\* ---- a prompt click on the active screen whose ensureSubmission inserts ----
Submit(c, p) ==
  /\ Screen(c) = "active"
  /\ \E i \in DOMAIN prompts[c] : prompts[c][i] = p
  /\ <<c, p>> \notin submissions
  /\ submissions' = submissions \cup {<<c, p>>}
  /\ UNCHANGED <<status, finished_at, inbox, hunt, finishedAt, prompts, pc, fhTarget, tf>>
  /\ UNCHANGED <<walkVars, joinVars, subVars, tallyVars, failVars, photoVars, bootVars, homeVars, castVars, nameVars>>

\* ---- startGame ----
StartGame(c) ==
  /\ Screen(c) = "lobby"
  /\ pc[c] = "idle"
  /\ UpdateHuntStatus("active")
  /\ pc' = [pc EXCEPT ![c] = "sg_ack"]
  /\ UNCHANGED <<finished_at, submissions, hunt, finishedAt, prompts, fhTarget, tf>>
  /\ UNCHANGED <<walkVars, joinVars, subVars, tallyVars, failVars, photoVars, bootVars, homeVars, castVars, nameVars>>

StartGameAck(c) ==
  /\ pc[c] = "sg_ack"
  /\ hunt' = [hunt EXCEPT ![c] = MergeHunt(@, "active")]
  /\ pc' = [pc EXCEPT ![c] = "idle"]
  /\ UNCHANGED <<status, finished_at, submissions, inbox, finishedAt, prompts, fhTarget, tf>>
  /\ UNCHANGED <<walkVars, joinVars, subVars, tallyVars, failVars, photoVars, bootVars, homeVars, castVars, nameVars>>

\* ---- finishHunt ----
\* Group submissions by prompt and check if any prompt has 2+ different players
hasVotablePrompts(subs) ==
  \E p \in Prompts : Cardinality({s[1] : s \in {t \in subs : t[2] = p}}) >= 2

\* a check that is content with one finished member
SomeFinished(rows) ==
  LET allPlayers == {p \in Players : rows[p] # NONE}
  IN (\E p \in allPlayers : rows[p] # "null") /\ allPlayers # {}

\* allFinished && allPlayers && allPlayers.length > 0, on the rows as read
AllFinished(rows) ==
  LET allPlayers == {p \in Players : rows[p] # NONE}
  IN (\A p \in allPlayers : rows[p] # "null") /\ allPlayers # {}

\* src/app/page.tsx:1132-1147, the older finishHunt: voting whenever all finished
FinishTargetAlwaysVoting(submissionsCheck) == "voting"

\* the status finishHunt writes for the submissions it read
FinishTarget(submissionsCheck) ==
  IF hasVotablePrompts(submissionsCheck) THEN "voting" ELSE "finished"

\* update finished_at = now on the caller's row (no row: nothing is updated),
\* then setFinishedAt(now)
FinishHunt(c) ==
  /\ Screen(c) = "active"
  /\ ~finishedAt[c]
  /\ pc[c] = "idle"
  /\ finished_at' = [finished_at EXCEPT ![c] = IF @ = NONE THEN NONE ELSE "set"]
  /\ finishedAt' = [finishedAt EXCEPT ![c] = TRUE]
  /\ pc' = [pc EXCEPT ![c] = "fh_check"]
  /\ UNCHANGED <<status, submissions, inbox, hunt, prompts, fhTarget, tf>>
  /\ UNCHANGED <<walkVars, joinVars, subVars, tallyVars, failVars, photoVars, bootVars, homeVars, castVars, nameVars>>

\* select finished_at of every member, then prompt_id, player_id of the hunt's
\* submissions, and decide.  (The two selects are taken as one read: every
\* other write touches only one of the two tables.)  A failed select of the
\* submissions leaves submissionsCheck undefined (ok = FALSE).
FinishHuntCheck(c, ok) ==
  /\ pc[c] = "fh_check"
  /\ IF AllFinished(finished_at)
       THEN LET submissionsCheck == IF ok THEN submissions ELSE {}
            IN /\ fhTarget' = [fhTarget EXCEPT ![c] = FinishTarget(submissionsCheck)]
               /\ pc' = [pc EXCEPT ![c] = "fh_write"]
       ELSE /\ pc' = [pc EXCEPT ![c] = "idle"]
            /\ UNCHANGED fhTarget
  /\ UNCHANGED <<status, finished_at, submissions, inbox, hunt, finishedAt, prompts, tf>>
  /\ UNCHANGED <<walkVars, joinVars, subVars, tallyVars, failVars, photoVars, bootVars, homeVars, castVars, nameVars>>

FinishHuntWrite(c) ==
  /\ pc[c] = "fh_write"
  /\ UpdateHuntStatus(fhTarget[c])
  /\ pc' = [pc EXCEPT ![c] = "fh_ack"]
  /\ UNCHANGED <<finished_at, submissions, hunt, finishedAt, prompts, fhTarget, tf>>
  /\ UNCHANGED <<walkVars, joinVars, subVars, tallyVars, failVars, photoVars, bootVars, homeVars, castVars, nameVars>>

\* playersError, finishError or statusError: console.error, return
FinishHuntFail(c) ==
  /\ pc[c] \in {"fh_check", "fh_write"}
  /\ pc' = [pc EXCEPT ![c] = "idle"]
  /\ fhTarget' = [fhTarget EXCEPT ![c] = NONE]
  /\ UNCHANGED <<status, finished_at, submissions, inbox, hunt, finishedAt, prompts, tf>>
  /\ UNCHANGED <<walkVars, joinVars, subVars, tallyVars, photoVars, bootVars, homeVars, castVars, nameVars>>

FinishHuntAck(c) ==
  /\ pc[c] = "fh_ack"
  /\ hunt' = [hunt EXCEPT ![c] = MergeHunt(@, fhTarget[c])]
  /\ pc' = [pc EXCEPT ![c] = "idle"]
  /\ fhTarget' = [fhTarget EXCEPT ![c] = NONE]
  /\ UNCHANGED <<status, finished_at, submissions, inbox, finishedAt, prompts, tf>>
  /\ UNCHANGED <<walkVars, joinVars, subVars, tallyVars, failVars, photoVars, bootVars, homeVars, castVars, nameVars>>

\* ---- undoFinish ----
\* an undoFinish that also reopens the hunt
UndoFinishReopens(c) ==
  /\ Screen(c) = "active"
  /\ finishedAt[c]
  /\ pc[c] = "idle"
  /\ finished_at' = [finished_at EXCEPT ![c] = IF @ = NONE THEN NONE ELSE "null"]
  /\ finishedAt' = [finishedAt EXCEPT ![c] = FALSE]
  /\ UpdateHuntStatus("active")
  /\ UNCHANGED <<submissions, hunt, prompts, pc, fhTarget, tf>>
  /\ UNCHANGED <<walkVars, joinVars, subVars, tallyVars, failVars, photoVars, bootVars, homeVars, castVars, nameVars>>

\* update finished_at = null on the caller's row, then setFinishedAt(null)
UndoFinish(c) ==
  /\ Screen(c) = "active"
  /\ finishedAt[c]
  /\ pc[c] = "idle"
  /\ finished_at' = [finished_at EXCEPT ![c] = IF @ = NONE THEN NONE ELSE "null"]
  /\ finishedAt' = [finishedAt EXCEPT ![c] = FALSE]
  /\ UNCHANGED <<status, submissions, inbox, hunt, prompts, pc, fhTarget, tf>>
  /\ UNCHANGED <<walkVars, joinVars, subVars, tallyVars, failVars, photoVars, bootVars, homeVars, castVars, nameVars>>

\* ---- "View Results" on the voting screen, then transitionToFinished ----
ViewResults(c) ==
  /\ Screen(c) = "voting"
  /\ promptsWithSubmissions(prompts[c], allSubmissions[c]) = <<>>
  /\ tf[c] = "idle"
  /\ tf' = [tf EXCEPT ![c] = "write"]
  /\ UNCHANGED <<status, finished_at, submissions, inbox, hunt, finishedAt, prompts, pc,
                 fhTarget>>
  /\ UNCHANGED <<walkVars, joinVars, subVars, tallyVars, failVars, photoVars, bootVars, homeVars, castVars, nameVars>>

TransitionToFinished(c) ==
  /\ tf[c] = "write"
  /\ UpdateHuntStatus("finished")
  /\ tf' = [tf EXCEPT ![c] = "ack"]
  /\ UNCHANGED <<finished_at, submissions, hunt, finishedAt, prompts, pc, fhTarget>>
  /\ UNCHANGED <<walkVars, joinVars, subVars, tallyVars, failVars, photoVars, bootVars, homeVars, castVars, nameVars>>

\* console.error, return
TransitionToFinishedFail(c) ==
  /\ tf[c] = "write"
  /\ tf' = [tf EXCEPT ![c] = "idle"]
  /\ UNCHANGED <<status, finished_at, submissions, inbox, hunt, finishedAt, prompts, pc,
                 fhTarget>>
  /\ UNCHANGED <<walkVars, joinVars, subVars, tallyVars, photoVars, bootVars, homeVars, castVars, nameVars>>

TransitionToFinishedAck(c) ==
  /\ tf[c] = "ack"
  /\ hunt' = [hunt EXCEPT ![c] = MergeHunt(@, "finished")]
  /\ tf' = [tf EXCEPT ![c] = "idle"]
  /\ UNCHANGED <<status, finished_at, submissions, inbox, finishedAt, prompts, pc,
                 fhTarget>>
  /\ UNCHANGED <<walkVars, joinVars, subVars, tallyVars, failVars, photoVars, bootVars, homeVars, castVars, nameVars>>

NextLife ==
  \/ \E c \in Players : LoadHunt(c)
  \/ \E c \in Players : HuntChangeEvent(c)
  \/ \E c \in Players : EnsureMembership(c)
  \/ \E c \in Players : LoadPrompts(c)
  \/ \E c \in Players, p \in Prompts : Submit(c, p)
  \/ \E c \in Players : StartGame(c)
  \/ \E c \in Players : StartGameAck(c)
  \/ \E c \in Players : FinishHunt(c)
  \/ \E c \in Players, ok \in BOOLEAN : FinishHuntCheck(c, ok)
  \/ \E c \in Players : FinishHuntWrite(c)
  \/ \E c \in Players : FinishHuntFail(c) /\ UNCHANGED failVars
  \/ \E c \in Players : FinishHuntAck(c)
  \/ \E c \in Players : UndoFinish(c)
  \/ \E c \in Players : ViewResults(c)
  \/ \E c \in Players : TransitionToFinished(c)
  \/ \E c \in Players : TransitionToFinishedFail(c) /\ UNCHANGED failVars
  \/ \E c \in Players : TransitionToFinishedAck(c)

Init ==
  InitLife /\ ParkedWalk /\ ParkedJoin /\ ParkedSub /\ ParkedTally /\ ParkedFail
  /\ ParkedPhoto /\ ParkedBoot /\ ParkedHome /\ ParkedCast /\ ParkedName

Spec == Init /\ [][NextLife]_vars

\* ------------------------------------------------------------------------
\* Properties of the status machine (Spec)
\* ------------------------------------------------------------------------
StatusEdges == {<<"lobby", "active">>, <<"active", "voting">>,
                <<"active", "finished">>, <<"voting", "finished">>}

\* C1: every change of the hunt's status follows one of the edges
\* lobby->active, active->voting, active->finished, voting->finished; it never
\* skips a stage and never goes back, whatever the clients' local views are.
C1_StatusOnlyMovesAlongEdges ==
  [][status' # status => <<status, status'>> \in StatusEdges]_vars

\* every prompt's submissions come from a single player
SinglePlayerPerPrompt(subs) ==
  \A s \in subs, t \in subs : s[2] = t[2] => s[1] = t[1]

C15_UndoFinishOnlyOwnFinishedAt ==
  [][\A c \in Players :
       (finishedAt[c] /\ ~finishedAt'[c])
         => /\ status' = status
            /\ inbox' = inbox
            /\ finished_at'[c] \in {"null", NONE}
            /\ \A d \in Players \ {c} : finished_at'[d] = finished_at[d]]_vars

\* C15 witness: p2's finishHunt call found every member finished (the host
\* among them) and is about to write; the host has since undone its finish,
\* and the status is still active.
C15_Witness ==
  /\ status = "active"
  /\ pc["p2"] = "fh_write"
  /\ finished_at["p2"] = "set"
  /\ finished_at[Host] = "null"
  /\ ~finishedAt[Host]

\* the players with a membership row
Members == {p \in Players : finished_at[p] # NONE}

\* C16: a finishHunt call goes on to write a status only when the membership
\* rows it re-reads are not empty and every one of them has finished_at set;
\* when some member's finished_at is null in what it reads, the call ends
\* there and the status is not written.
C16_FinishOnlyWhenAllFinished ==
  [][\A c \in Players :
       /\ (pc[c] = "fh_check" /\ pc'[c] = "fh_write")
            => (Members # {} /\ \A p \in Members : finished_at[p] = "set")
       /\ (pc[c] = "fh_check" /\ pc'[c] # "fh_check"
             /\ \E p \in Members : finished_at[p] = "null")
            => (pc'[c] = "idle" /\ status' = status /\ fhTarget'[c] = NONE)
       /\ (pc'[c] = "fh_write" /\ pc[c] # "fh_write") => pc[c] = "fh_check"]_vars

\* C16 witness: both players are members and finished, and a finishHunt call
\* that found them so has written voting.
C16_Witness ==
  \E c \in Players :
    /\ pc[c] = "fh_ack"
    /\ fhTarget[c] = "voting"
    /\ status = "voting"
    /\ \A p \in Players : finished_at[p] = "set"

\* C18: the startGame call of a client sets the status to active when the
\* hunt's status is lobby, and leaves the status as it is when the hunt is not
\* in lobby.
C18_StartGameOnlyFromLobby ==
  [][\A c \in Players :
       (pc[c] = "idle" /\ pc'[c] = "sg_ack")
         => IF status = "lobby" THEN status' = "active" ELSE status' = status]_vars

\* C22: when a submission row is inserted, the membership row of its player
\* exists.
C22_MembershipBeforeSubmission ==
  [][\A s \in submissions' \ submissions : finished_at[s[1]] # NONE]_vars

\* C11: finishHunt calls that run concurrently and both find every member
\* finished, while the hunt is still active, are about to write the same
\* target status.
C11_ConcurrentFinishSameTarget ==
  \A c \in Players, d \in Players :
    (status = "active" /\ pc[c] = "fh_write" /\ pc[d] = "fh_write")
      => fhTarget[c] = fhTarget[d]

\* C39: whenever the hunt's status is voting, every membership row has
\* finished_at set, also with finishHunt, undoFinish and joins of clients
\* whose local status lags behind.
C39_VotingMeansAllFinished ==
  status = "voting" => \A p \in Members : finished_at[p] = "set"

\* no status write is on its way, acknowledged or not, and every change
\* event has been delivered
StatusWritesSettled ==
  \A c \in Players : pc[c] = "idle" /\ tf[c] = "idle" /\ inbox[c] = NONE

\* C27: when the status writes have stopped, their acknowledgements and
\* every change event have arrived, each client that holds the hunt shows
\* the status the ledger has, in whatever order acknowledgements and events
\* came.
C27_LocalStatusConverges ==
  StatusWritesSettled => \A c \in Players : hunt[c] # NONE => hunt[c] = status

\* ------------------------------------------------------------------------
\* SpecFail: the transition attempts with their failures and reports
\* ------------------------------------------------------------------------
\* The status machine of Spec with every failure branch of startGame,
\* finishHunt and transitionToFinished and what the branch reports.  Both
\* players have joined, both clients have loaded the prompts in the same
\* order, and prompt a is the only one they click.
InitFail ==
  /\ status = "lobby"
  /\ finished_at = [p \in Players |-> "null"]
  /\ submissions = {}
  /\ inbox = [c \in Players |-> NONE]
  /\ hunt = [c \in Players |-> NONE]
  /\ finishedAt = [c \in Players |-> FALSE]
  /\ prompts = [c \in Players |-> <<"a", "b">>]
  /\ pc = [c \in Players |-> "idle"]
  /\ fhTarget = [c \in Players |-> NONE]
  /\ tf = [c \in Players |-> "idle"]
  /\ ParkedWalk
  /\ ParkedJoin
  /\ ParkedSub
  /\ ParkedTally
  /\ ParkedFail
  /\ ParkedBoot
  /\ ParkedHome
  /\ ParkedCast
  /\ ParkedName
  /\ ParkedPhoto

\* setError(error.message)
SetError(c, call) ==
  reported' = [reported EXCEPT ![c] = [call |-> call, how |-> "setError"]]

\* console.error(...)
ConsoleError(c, call) ==
  reported' = [reported EXCEPT ![c] = [call |-> call, how |-> "console.error"]]

\* startGame: the update fails: setError, return
StartGameFail(c) ==
  /\ Screen(c) = "lobby"
  /\ pc[c] = "idle"
  /\ SetError(c, "startGame")
  /\ UNCHANGED <<lifeVars, walkVars, joinVars, subVars, tallyVars, photoVars, bootVars, homeVars, castVars, nameVars>>

\* finishHunt: the update of finished_at fails: setError, return
FinishHuntFinishedAtFail(c) ==
  /\ Screen(c) = "active"
  /\ ~finishedAt[c]
  /\ pc[c] = "idle"
  /\ SetError(c, "finishHunt")
  /\ UNCHANGED <<lifeVars, walkVars, joinVars, subVars, tallyVars, photoVars, bootVars, homeVars, castVars, nameVars>>

NextFail ==
  \/ \E c \in Players : LoadHunt(c)
  \/ \E c \in Players : HuntChangeEvent(c)
  \/ \E c \in Players : Submit(c, "a")
  \/ \E c \in Players : StartGame(c)
  \/ \E c \in Players : StartGameFail(c)
  \/ \E c \in Players : StartGameAck(c)
  \/ \E c \in Players : FinishHunt(c)
  \/ \E c \in Players : FinishHuntFinishedAtFail(c)
  \/ \E c \in Players, ok \in BOOLEAN : FinishHuntCheck(c, ok)
  \/ \E c \in Players : FinishHuntWrite(c)
  \/ \E c \in Players : FinishHuntFail(c) /\ ConsoleError(c, "finishHunt")
  \/ \E c \in Players : FinishHuntAck(c)
  \/ \E c \in Players : UndoFinish(c)
  \/ \E c \in Players : ViewResults(c)
  \/ \E c \in Players : TransitionToFinished(c)
  \/ \E c \in Players :
       TransitionToFinishedFail(c) /\ ConsoleError(c, "transitionToFinished")
  \/ \E c \in Players : TransitionToFinishedAck(c)

SpecFail == InitFail /\ [][NextFail]_vars

\* the step is a failed select or update of c's finishHunt or
\* transitionToFinished call: the call was in flight and ends without its
\* write (a finishHunt call that reads an unfinished member also ends so,
\* without a failure)
FailedCall(c) ==
  IF pc[c] = "fh_write" /\ pc'[c] = "idle" THEN "finishHunt"
  ELSE IF pc[c] = "fh_check" /\ pc'[c] = "idle" /\ AllFinished(finished_at)
    THEN "finishHunt"
  ELSE IF tf[c] = "write" /\ tf'[c] = "idle" THEN "transitionToFinished"
  ELSE IF reported'[c] # reported[c] THEN reported'[c].call
  ELSE NONE

\* C12: a step in which a select or update of a client's startGame, finishHunt
\* or transitionToFinished call fails leaves the hunt's status and that
\* client's local hunt status as they were, and the call reports the failure
\* through the client's error state.
C12_FailureLeavesStatusAndIsSurfaced ==
  [][\A c \in Players :
       FailedCall(c) # NONE
         => /\ status' = status
            /\ hunt'[c] = hunt[c]
            /\ reported'[c] = [call |-> FailedCall(c), how |-> "setError"]]_vars

\* ------------------------------------------------------------------------
\* SpecVote: the voting walk
\* ------------------------------------------------------------------------
\* State right after a finishHunt call has moved the hunt to voting and every
\* client has learnt it: every member is finished, some prompt has submissions
\* of two players, every client shows the voting screen with its own play
\* order, and the voting-phase load effect of every client is about to run.
\* Every write of SpecVote succeeds, except the insert of a vote and the
\* select of the load effect.
InitVote ==
  /\ status = "voting"
  /\ finished_at = [p \in Players |-> "set"]
  /\ submissions \in {S \in SUBSET (Players \X Prompts) : hasVotablePrompts(S)}
  /\ inbox = [c \in Players |-> NONE]
  /\ hunt = [c \in Players |-> "voting"]
  /\ finishedAt = [c \in Players |-> TRUE]
  /\ prompts \in [Players -> Perms(Prompts)]
  /\ prompts[Host] = <<"a", "b">>
  /\ pc = [c \in Players |-> "idle"]
  /\ fhTarget = [c \in Players |-> NONE]
  /\ tf = [c \in Players |-> "idle"]
  /\ votes = 0
  /\ vload = [c \in Players |-> "run"]
  /\ allSubmissions = [c \in Players |-> {}]
  /\ currentPromptIndex = [c \in Players |-> 0]
  /\ votedPromptIds = [c \in Players |-> {}]
  /\ cv = [c \in Players |-> NoVote]
  /\ walk = [c \in Players |-> [adv |-> 0]]
  /\ ParkedJoin
  /\ ParkedSub
  /\ ParkedTally
  /\ ParkedFail
  /\ ParkedBoot
  /\ ParkedHome
  /\ ParkedCast
  /\ ParkedName
  /\ ParkedPhoto

\* the list the walk goes over, as this client computes it
VotingList(c) == promptsWithSubmissions(prompts[c], allSubmissions[c])

\* promptsWithSubmissions[currentPromptIndex], NONE when out of range
CurrentPrompt(c) ==
  IF currentPromptIndex[c] + 1 \in DOMAIN VotingList(c)
    THEN VotingList(c)[currentPromptIndex[c] + 1]
    ELSE NONE

\* currentPromptIndex < promptsWithSubmissions.length - 1
BeforeLast(c) == currentPromptIndex[c] < Len(VotingList(c)) - 1

\* ---- load all submissions for voting phase (effect on hunt?.status) ----
\* setAllSubmissions(submissions); then one createSignedUrl per submission
\* with a photo (photos: some submission has one), then the reset of
\* currentPromptIndex and votedPromptIds.
ResetWalk(c) ==
  /\ currentPromptIndex' = [currentPromptIndex EXCEPT ![c] = 0]
  /\ votedPromptIds' = [votedPromptIds EXCEPT ![c] = {}]
  /\ walk' = [walk EXCEPT ![c].adv = 0]

LoadVoting(c, photos) ==
  /\ vload[c] = "run"
  /\ allSubmissions' = [allSubmissions EXCEPT ![c] = submissions]
  /\ IF photos
       THEN /\ vload' = [vload EXCEPT ![c] = "urls"]
            /\ UNCHANGED <<currentPromptIndex, votedPromptIds, walk>>
       ELSE /\ vload' = [vload EXCEPT ![c] = "idle"]
            /\ ResetWalk(c)
  /\ UNCHANGED <<lifeVars, votes, cv>>
  /\ UNCHANGED <<joinVars, subVars, tallyVars, failVars, photoVars, bootVars, homeVars, castVars, nameVars>>

LoadVotingReset(c) ==
  /\ vload[c] = "urls"
  /\ vload' = [vload EXCEPT ![c] = "idle"]
  /\ ResetWalk(c)
  /\ UNCHANGED <<lifeVars, votes, allSubmissions, cv>>
  /\ UNCHANGED <<joinVars, subVars, tallyVars, failVars, photoVars, bootVars, homeVars, castVars, nameVars>>

\* submissionsError: setError, return
LoadVotingFail(c) ==
  /\ vload[c] = "run"
  /\ vload' = [vload EXCEPT ![c] = "idle"]
  /\ UNCHANGED <<lifeVars, votes, allSubmissions, currentPromptIndex, votedPromptIds, cv,
                 walk>>
  /\ UNCHANGED <<joinVars, subVars, tallyVars, failVars, photoVars, bootVars, homeVars, castVars, nameVars>>

\* ---- advanceToNextPrompt, run with the values its closure captured ----
\* cur: promptsWithSubmissions[currentPromptIndex] of the render the closure
\* belongs to; beforeLast: its currentPromptIndex < length - 1.  The setters
\* are functional updates and act on the present state.  walk.adv counts the
\* advances of the walk, up to the number of prompts.
advanceToNextPrompt(c, cur, beforeLast) ==
  IF cur = NONE
    THEN UNCHANGED <<votedPromptIds, currentPromptIndex, tf, walk>>
    ELSE /\ votedPromptIds' = [votedPromptIds EXCEPT ![c] = @ \cup {cur}]
         /\ walk' = [walk EXCEPT ![c].adv = IF @ < Cardinality(Prompts) THEN @ + 1 ELSE @]
         /\ IF beforeLast
              THEN /\ currentPromptIndex' = [currentPromptIndex EXCEPT ![c] = @ + 1]
                   /\ UNCHANGED tf
              ELSE /\ tf' = [tf EXCEPT ![c] = "write"]
                   /\ UNCHANGED currentPromptIndex

\* ---- "Skip this prompt" ----
Skip(c) ==
  /\ Screen(c) = "voting"
  /\ VotingList(c) # <<>>
  /\ advanceToNextPrompt(c, CurrentPrompt(c), BeforeLast(c))
  /\ UNCHANGED <<status, finished_at, submissions, inbox, hunt, finishedAt, prompts, pc,
                 fhTarget, votes, vload, allSubmissions, cv>>
  /\ UNCHANGED <<joinVars, subVars, tallyVars, failVars, photoVars, bootVars, homeVars, castVars, nameVars>>

\* ---- castVote ----
\* "Vote" on a submission of the current prompt (shown while the prompt is
\* not in votedPromptIds); the insert is awaited.
CastVote(c, s) ==
  /\ Screen(c) = "voting"
  /\ s \in allSubmissions[c]
  /\ s[2] = CurrentPrompt(c)
  /\ s[2] \notin votedPromptIds[c]
  /\ cv[c] = NoVote
  /\ votes < MaxVotes
  /\ cv' = [cv EXCEPT ![c] = [cur |-> CurrentPrompt(c), beforeLast |-> BeforeLast(c)]]
  /\ UNCHANGED <<lifeVars, votes, vload, allSubmissions, currentPromptIndex,
                 votedPromptIds, walk>>
  /\ UNCHANGED <<joinVars, subVars, tallyVars, failVars, photoVars, bootVars, homeVars, castVars, nameVars>>

\* the insert succeeded: advanceToNextPrompt() of the render that was clicked
CastVoteReturn(c) ==
  /\ cv[c] # NoVote
  /\ votes' = votes + 1
  /\ cv' = [cv EXCEPT ![c] = NoVote]
  /\ advanceToNextPrompt(c, cv[c].cur, cv[c].beforeLast)
  /\ UNCHANGED <<status, finished_at, submissions, inbox, hunt, finishedAt, prompts, pc,
                 fhTarget, vload, allSubmissions>>
  /\ UNCHANGED <<joinVars, subVars, tallyVars, failVars, photoVars, bootVars, homeVars, castVars, nameVars>>

\* the insert failed: setError, return
CastVoteFail(c) ==
  /\ cv[c] # NoVote
  /\ cv' = [cv EXCEPT ![c] = NoVote]
  /\ UNCHANGED <<lifeVars, votes, vload, allSubmissions, currentPromptIndex,
                 votedPromptIds, walk>>
  /\ UNCHANGED <<joinVars, subVars, tallyVars, failVars, photoVars, bootVars, homeVars, castVars, nameVars>>

NextVote ==
  \/ \E c \in Players, photos \in BOOLEAN : LoadVoting(c, photos)
  \/ \E c \in Players : LoadVotingReset(c)
  \/ \E c \in Players : LoadVotingFail(c)
  \/ \E c \in Players : Skip(c)
  \/ \E c \in Players, s \in Players \X Prompts : CastVote(c, s)
  \/ \E c \in Players : CastVoteReturn(c)
  \/ \E c \in Players : CastVoteFail(c)
  \/ \E c \in Players : ViewResults(c)
  \/ \E c \in Players : TransitionToFinished(c)
  \/ \E c \in Players : TransitionToFinishedAck(c)
  \/ \E c \in Players : HuntChangeEvent(c)

SpecVote == InitVote /\ [][NextVote]_vars

\* C2: once a client's walk over its N >= 1 prompts has made N advances and
\* none of its calls is in flight, the hunt is finished.
C2_FinishedAfterNAdvances ==
  \A c \in Players :
    ( /\ Screen(c) = "voting"
      /\ vload[c] = "idle"
      /\ Len(VotingList(c)) >= 1
      /\ walk[c].adv >= Len(VotingList(c))
      /\ cv[c] = NoVote
      /\ tf[c] = "idle" )
    => status = "finished"

\* C17: a client is about to write the voting -> finished transition only
\* when it has resolved, by a vote or a skip, every prompt of the hunt that
\* has a submission.
C17_FinishOnlyAfterEveryPromptResolved ==
  \A c \in Players :
    tf[c] = "write"
      => \A p \in Prompts :
           (\E s \in submissions : s[2] = p) => p \in votedPromptIds[c]

\* ------------------------------------------------------------------------
\* SpecJoin: the membership ledger
\* ------------------------------------------------------------------------
\* Rows of hunt_players are [player_id, role].  Both writers name
\* onConflict: "hunt_id,player_id", which PostgreSQL accepts only with a
\* unique index on that pair; the upsert is one atomic statement.
KeyIndex(rows, player) ==
  IF \E i \in DOMAIN rows : rows[i].player_id = player
    THEN CHOOSE i \in DOMAIN rows : rows[i].player_id = player
    ELSE 0

\* upsert(row, { onConflict: "hunt_id,player_id" }): ON CONFLICT DO UPDATE
UpsertOverwrite(rows, row) ==
  IF KeyIndex(rows, row.player_id) = 0
    THEN Append(rows, row)
    ELSE [rows EXCEPT ![KeyIndex(rows, row.player_id)] = row]

\* the membership effect's upsert without ignoreDuplicates
UpsertWithoutIgnoreDuplicates(rows, row) == UpsertOverwrite(rows, row)

\* upsert(row, { onConflict: "hunt_id,player_id", ignoreDuplicates: true }):
\* ON CONFLICT DO NOTHING
UpsertIgnoreDuplicates(rows, row) ==
  IF KeyIndex(rows, row.player_id) = 0 THEN Append(rows, row) ELSE rows

\* data: null of a select
NoRow == [player_id |-> NONE, role |-> NONE]

\* .eq("hunt_id", huntId).eq("player_id", playerId).single(): the row, or no
\* data unless exactly one row matches
SelectSingle(rows, player) ==
  LET hits == {i \in DOMAIN rows : rows[i].player_id = player}
  IN IF Cardinality(hits) = 1 THEN rows[CHOOSE i \in hits : TRUE] ELSE NoRow

\* No hunt has been created and every session is on the home screen.  The
\* variables of the other specifications rest at their initial values.
InitJoin ==
  /\ ParkedJoin
  /\ InitLife
  /\ ParkedWalk
  /\ ParkedSub
  /\ ParkedTally
  /\ ParkedFail
  /\ ParkedBoot
  /\ ParkedHome
  /\ ParkedCast
  /\ ParkedName
  /\ ParkedPhoto

\* ---- createHunt: insert the hunts row (seeding prompts follows) ----
CreateHunt(s) ==
  /\ jpc[s] = "home"
  /\ ~created
  /\ created' = TRUE
  /\ jpc' = [jpc EXCEPT ![s] = "host"]
  /\ UNCHANGED <<hunt_players, hostPlayer, isHost>>
  /\ UNCHANGED <<lifeVars, walkVars, subVars, tallyVars, failVars, photoVars, bootVars, homeVars, castVars, nameVars>>

\* ---- createHunt: "Join as host", setIsHost(true), setHuntId ----
CreateHuntJoinAsHost(s) ==
  /\ jpc[s] = "host"
  /\ hunt_players' = UpsertOverwrite(hunt_players, [player_id |-> Owner[s], role |-> "host"])
  /\ hostPlayer' = Owner[s]
  /\ isHost' = [isHost EXCEPT ![s] = TRUE]
  /\ jpc' = [jpc EXCEPT ![s] = "select"]
  /\ UNCHANGED created
  /\ UNCHANGED <<lifeVars, walkVars, subVars, tallyVars, failVars, photoVars, bootVars, homeVars, castVars, nameVars>>

\* seedErr or hostErr: setError, return (huntId stays unset)
CreateHuntFail(s) ==
  /\ jpc[s] = "host"
  /\ jpc' = [jpc EXCEPT ![s] = "home"]
  /\ UNCHANGED <<hunt_players, created, hostPlayer, isHost>>
  /\ UNCHANGED <<lifeVars, walkVars, subVars, tallyVars, failVars, photoVars, bootVars, homeVars, castVars, nameVars>>

\* ---- joinHuntByCode / resumeGame: setHuntId ----
JoinHuntByCode(s) ==
  /\ jpc[s] = "home"
  /\ created
  /\ jpc' = [jpc EXCEPT ![s] = "select"]
  /\ UNCHANGED <<hunt_players, created, hostPlayer, isHost>>
  /\ UNCHANGED <<lifeVars, walkVars, subVars, tallyVars, failVars, photoVars, bootVars, homeVars, castVars, nameVars>>

\* ---- ensure membership (effect on huntId, playerId) ----
\* "Check if already joined"
MembershipSelect(s) ==
  /\ jpc[s] = "select"
  /\ jpc' = [jpc EXCEPT ![s] = IF SelectSingle(hunt_players, Owner[s]) = NoRow
                                   THEN "upsert" ELSE "fetch"]
  /\ UNCHANGED <<hunt_players, created, hostPlayer, isHost>>
  /\ UNCHANGED <<lifeVars, walkVars, subVars, tallyVars, failVars, photoVars, bootVars, homeVars, castVars, nameVars>>

MembershipUpsert(s) ==
  /\ jpc[s] = "upsert"
  /\ hunt_players' =
       UpsertIgnoreDuplicates(hunt_players, [player_id |-> Owner[s], role |-> "player"])
  /\ jpc' = [jpc EXCEPT ![s] = "fetch"]
  /\ UNCHANGED <<created, hostPlayer, isHost>>
  /\ UNCHANGED <<lifeVars, walkVars, subVars, tallyVars, failVars, photoVars, bootVars, homeVars, castVars, nameVars>>

\* upsertError or fetchError: return
MembershipFail(s) ==
  /\ jpc[s] \in {"upsert", "fetch"}
  /\ jpc' = [jpc EXCEPT ![s] = "failed"]
  /\ UNCHANGED <<hunt_players, created, hostPlayer, isHost>>
  /\ UNCHANGED <<lifeVars, walkVars, subVars, tallyVars, failVars, photoVars, bootVars, homeVars, castVars, nameVars>>

\* "Always fetch fresh data": setIsHost(playerData?.role === "host")
MembershipFetch(s) ==
  /\ jpc[s] = "fetch"
  /\ SelectSingle(hunt_players, Owner[s]) # NoRow
  /\ isHost' = [isHost EXCEPT ![s] = SelectSingle(hunt_players, Owner[s]).role = "host"]
  /\ jpc' = [jpc EXCEPT ![s] = "joined"]
  /\ UNCHANGED <<hunt_players, created, hostPlayer>>
  /\ UNCHANGED <<lifeVars, walkVars, subVars, tallyVars, failVars, photoVars, bootVars, homeVars, castVars, nameVars>>

\* ---- a reload of the page: huntId comes back from localStorage and the
\* effect runs again ----
Reload(s) ==
  /\ jpc[s] \in {"joined", "failed"}
  /\ isHost' = [isHost EXCEPT ![s] = FALSE]
  /\ jpc' = [jpc EXCEPT ![s] = "select"]
  /\ UNCHANGED <<hunt_players, created, hostPlayer>>
  /\ UNCHANGED <<lifeVars, walkVars, subVars, tallyVars, failVars, photoVars, bootVars, homeVars, castVars, nameVars>>

\* ---- changeHunt / leaveGame: setHuntId(null) ----
ChangeHunt(s) ==
  /\ jpc[s] \in {"joined", "failed"}
  /\ isHost' = [isHost EXCEPT ![s] = FALSE]
  /\ jpc' = [jpc EXCEPT ![s] = "home"]
  /\ UNCHANGED <<hunt_players, created, hostPlayer>>
  /\ UNCHANGED <<lifeVars, walkVars, subVars, tallyVars, failVars, photoVars, bootVars, homeVars, castVars, nameVars>>

NextJoin ==
  \/ \E s \in Sessions : CreateHunt(s)
  \/ \E s \in Sessions : CreateHuntJoinAsHost(s)
  \/ \E s \in Sessions : CreateHuntFail(s)
  \/ \E s \in Sessions : JoinHuntByCode(s)
  \/ \E s \in Sessions : MembershipSelect(s)
  \/ \E s \in Sessions : MembershipUpsert(s)
  \/ \E s \in Sessions : MembershipFail(s)
  \/ \E s \in Sessions : MembershipFetch(s)
  \/ \E s \in Sessions : Reload(s)
  \/ \E s \in Sessions : ChangeHunt(s)

SpecJoin == InitJoin /\ [][NextJoin]_vars

MembershipRows(player) == {i \in DOMAIN hunt_players : hunt_players[i].player_id = player}

\* C3: however often, from however many sessions and however interleaved a
\* player joins the hunt, the player has at most one membership row, exactly
\* one once a join of the player went through, and the row of the player who
\* joined as host keeps the role host.
C3_JoinIdempotent ==
  /\ \A p \in Players : Cardinality(MembershipRows(p)) <= 1
  /\ \A s \in Sessions :
       jpc[s] \in {"fetch", "joined"} => Cardinality(MembershipRows(Owner[s])) = 1
  /\ hostPlayer # NONE =>
       \E i \in MembershipRows(hostPlayer) : hunt_players[i].role = "host"

\* C3 witness: the host's player id has joined from two sessions, one of them
\* by code after the hunt was created, a second player has joined, and the
\* ledger holds the host's row and the player's row.
C3_Witness ==
  /\ hostPlayer = "p1"
  /\ jpc = [s \in Sessions |-> "joined"]
  /\ isHost = [s \in Sessions |-> Owner[s] = "p1"]
  /\ hunt_players = <<[player_id |-> "p1", role |-> "host"],
                      [player_id |-> "p2", role |-> "player"]>>

\* the membership rows with role host
HostRows == {i \in DOMAIN hunt_players : hunt_players[i].role = "host"}

\* C24: once createHunt has returned, with success or with an error at any
\* step after the insert of the hunts row, the hunt that exists has exactly
\* one membership row with role host, and it is the creator's.
C24_CreatedHuntHasItsHost ==
  (created /\ \A s \in Sessions : jpc[s] # "host")
    => /\ Cardinality(HostRows) = 1
       /\ hostPlayer # NONE
       /\ \A i \in HostRows : hunt_players[i].player_id = hostPlayer

\* ------------------------------------------------------------------------
\* SpecSub: the submission ledger
\* ------------------------------------------------------------------------
\* Two sessions of the same player are in the hunt (two tabs, each also
\* before and after reloads); each keeps its own
\* submissionIdByPromptId.  A session has one ensureSubmission in flight at a
\* time (a prompt is not clickable while its status is "saving").
SubSessions == {s \in Sessions : Owner[s] = "p1"}

\* insert(...) into submissions: the table takes the row and gives it the
\* next id; it has no uniqueness rule over (hunt_id, player_id, prompt_id).
InsertSubmission(rows, row) == Append(rows, row)

\* the loop over the rows the load selected: nextSubmissionIds[row.prompt_id] =
\* row.id, a later row of the same prompt replacing an earlier one
RECURSIVE NextSubmissionIds(_, _, _)
NextSubmissionIds(rows, player, i) ==
  IF i = 0 THEN NoIds
  ELSE LET before == NextSubmissionIds(rows, player, i - 1)
       IN IF rows[i].player_id = player
            THEN [before EXCEPT ![rows[i].prompt_id] = i]
            ELSE before

\* The sessions have huntId and playerId set and their own-submissions load
\* is about to run; no submission exists.
InitSub ==
  /\ submission_rows = <<>>
  /\ submissionIdByPromptId = [s \in Sessions |-> NoIds]
  /\ ensuring = [s \in Sessions |-> NONE]
  /\ ownLoad = [s \in Sessions |->
                  OwnLoad(IF s \in SubSessions THEN "run" ELSE "idle", NoIds)]
  /\ returned = [p \in Prompts |-> {}]
  /\ InitLife
  /\ ParkedWalk
  /\ ParkedJoin
  /\ ParkedTally
  /\ ParkedFail
  /\ ParkedBoot
  /\ ParkedHome
  /\ ParkedCast
  /\ ParkedName
  /\ ParkedPhoto

\* ---- load submissions for this player + hunt (effect on huntId, playerId) ----
\* the select
LoadOwnSubmissions(s) ==
  /\ ownLoad[s].stage = "run"
  /\ ownLoad' = [ownLoad EXCEPT ![s] =
       OwnLoad("got", NextSubmissionIds(submission_rows, Owner[s], Len(submission_rows)))]
  /\ UNCHANGED <<submission_rows, submissionIdByPromptId, ensuring, returned>>
  /\ UNCHANGED <<lifeVars, walkVars, joinVars, tallyVars, failVars, photoVars, bootVars, homeVars, castVars, nameVars>>

\* its continuation: setSubmissionIdByPromptId(nextSubmissionIds)
LoadOwnSubmissionsApply(s) ==
  /\ ownLoad[s].stage = "got"
  /\ submissionIdByPromptId' = [submissionIdByPromptId EXCEPT ![s] = ownLoad[s].ids]
  /\ ownLoad' = [ownLoad EXCEPT ![s] = OwnLoad("idle", NoIds)]
  /\ UNCHANGED <<submission_rows, ensuring, returned>>
  /\ UNCHANGED <<lifeVars, walkVars, joinVars, tallyVars, failVars, photoVars, bootVars, homeVars, castVars, nameVars>>

\* error: console.error, return
LoadOwnSubmissionsFail(s) ==
  /\ ownLoad[s].stage = "run"
  /\ ownLoad' = [ownLoad EXCEPT ![s] = OwnLoad("idle", NoIds)]
  /\ UNCHANGED <<submission_rows, submissionIdByPromptId, ensuring, returned>>
  /\ UNCHANGED <<lifeVars, walkVars, joinVars, tallyVars, failVars, photoVars, bootVars, homeVars, castVars, nameVars>>

\* ---- ensureSubmission(promptId) ----
\* const existing = submissionIdByPromptId[promptId]; if (existing) return existing
EnsureSubmissionExisting(s, p) ==
  /\ s \in SubSessions
  /\ ensuring[s] = NONE
  /\ submissionIdByPromptId[s][p] # 0
  /\ returned' = [returned EXCEPT ![p] = @ \cup {submissionIdByPromptId[s][p]}]
  /\ UNCHANGED <<submission_rows, submissionIdByPromptId, ensuring, ownLoad>>
  /\ UNCHANGED <<lifeVars, walkVars, joinVars, tallyVars, failVars, photoVars, bootVars, homeVars, castVars, nameVars>>

\* no entry: status "saving", the insert is sent
EnsureSubmission(s, p) ==
  /\ s \in SubSessions
  /\ ensuring[s] = NONE
  /\ submissionIdByPromptId[s][p] = 0
  /\ ensuring' = [ensuring EXCEPT ![s] = p]
  /\ UNCHANGED <<submission_rows, submissionIdByPromptId, ownLoad, returned>>
  /\ UNCHANGED <<lifeVars, walkVars, joinVars, tallyVars, failVars, photoVars, bootVars, homeVars, castVars, nameVars>>

\* the insert succeeded: setSubmissionIdByPromptId((p) => ({...p, [promptId]:
\* data.id})), return data.id
EnsureSubmissionInserted(s) ==
  /\ ensuring[s] # NONE
  /\ Len(submission_rows) < MaxRows
  /\ LET p == ensuring[s]
         rows == InsertSubmission(submission_rows,
                                  [player_id |-> Owner[s], prompt_id |-> p])
     IN /\ submission_rows' = rows
        /\ submissionIdByPromptId' = [submissionIdByPromptId EXCEPT ![s][p] = Len(rows)]
        /\ returned' = [returned EXCEPT ![p] = @ \cup {Len(rows)}]
  /\ ensuring' = [ensuring EXCEPT ![s] = NONE]
  /\ UNCHANGED ownLoad
  /\ UNCHANGED <<lifeVars, walkVars, joinVars, tallyVars, failVars, photoVars, bootVars, homeVars, castVars, nameVars>>

\* the insert failed: status "error", throw
EnsureSubmissionFail(s) ==
  /\ ensuring[s] # NONE
  /\ ensuring' = [ensuring EXCEPT ![s] = NONE]
  /\ UNCHANGED <<submission_rows, submissionIdByPromptId, ownLoad, returned>>
  /\ UNCHANGED <<lifeVars, walkVars, joinVars, tallyVars, failVars, photoVars, bootVars, homeVars, castVars, nameVars>>

\* ---- a reload of the page: all state is fresh and the load effect runs ----
ReloadPage(s) ==
  /\ s \in SubSessions
  /\ ensuring[s] = NONE
  /\ ownLoad[s].stage = "idle"
  /\ submissionIdByPromptId' = [submissionIdByPromptId EXCEPT ![s] = NoIds]
  /\ ownLoad' = [ownLoad EXCEPT ![s] = OwnLoad("run", NoIds)]
  /\ UNCHANGED <<submission_rows, ensuring, returned>>
  /\ UNCHANGED <<lifeVars, walkVars, joinVars, tallyVars, failVars, photoVars, bootVars, homeVars, castVars, nameVars>>

NextSub ==
  \/ \E s \in Sessions : LoadOwnSubmissions(s)
  \/ \E s \in Sessions : LoadOwnSubmissionsApply(s)
  \/ \E s \in Sessions : LoadOwnSubmissionsFail(s)
  \/ \E s \in Sessions, p \in Prompts : EnsureSubmissionExisting(s, p)
  \/ \E s \in Sessions, p \in Prompts : EnsureSubmission(s, p)
  \/ \E s \in Sessions : EnsureSubmissionInserted(s)
  \/ \E s \in Sessions : EnsureSubmissionFail(s)
  \/ \E s \in Sessions : ReloadPage(s)

SpecSub == InitSub /\ [][NextSub]_vars

\* C4: every ensureSubmission call of the player for a prompt that returns
\* an id returns the same id, in one session, across overlapping calls and
\* after reloads.
C4_EnsureSubmissionSameId ==
  \A p \in Prompts : Cardinality(returned[p]) <= 1

\* C5: the submissions table never holds two rows with the same
\* (hunt_id, player_id, prompt_id).
C5_OneRowPerTriple ==
  \A i \in DOMAIN submission_rows, j \in DOMAIN submission_rows :
    submission_rows[i] = submission_rows[j] => i = j

\* ------------------------------------------------------------------------
\* SpecTally: the results effect
\* ------------------------------------------------------------------------
\* sequences over S of length at most n
SeqsUpTo(S, n) == UNION {[1..k -> S] : k \in 0..n}

SubmissionIds == 1..MaxRows

\* the (player, prompt) pairs of the rows
PairsOf(rows) == {<<rows[i].player_id, rows[i].prompt_id>> : i \in DOMAIN rows}

\* The hunt is finished and every client shows the results screen with its
\* own play order.  The submissions table holds any rows of the two players;
\* the votes table holds any rows, also rows of submissions that are not in
\* this hunt (the select of the votes has no filter).  Display names are the
\* player ids.
InitTally ==
  /\ submission_rows \in SeqsUpTo([player_id : Players, prompt_id : Prompts], MaxRows)
  /\ vote_rows \in SeqsUpTo(SubmissionIds, MaxVoteRows)
  /\ results = [c \in Players |-> NoResults]
  /\ status = "finished"
  /\ finished_at = [p \in Players |-> "set"]
  /\ submissions = PairsOf(submission_rows)
  /\ inbox = [c \in Players |-> NONE]
  /\ hunt = [c \in Players |-> "finished"]
  /\ finishedAt = [c \in Players |-> TRUE]
  /\ prompts \in [Players -> Perms(Prompts)]
  /\ prompts[Host] = <<"a", "b">>
  /\ pc = [c \in Players |-> "idle"]
  /\ fhTarget = [c \in Players |-> NONE]
  /\ tf = [c \in Players |-> "idle"]
  /\ submissionIdByPromptId = [s \in Sessions |-> NoIds]
  /\ ensuring = [s \in Sessions |-> NONE]
  /\ ownLoad = [s \in Sessions |-> OwnLoad("idle", NoIds)]
  /\ returned = [p \in Prompts |-> {}]
  /\ ParkedWalk
  /\ ParkedJoin
  /\ ParkedFail
  /\ ParkedBoot
  /\ ParkedHome
  /\ ParkedCast
  /\ ParkedName
  /\ ParkedPhoto

\* "Count votes per submission": voteCountMap[v.submission_id] =
\* (voteCountMap[v.submission_id] || 0) + 1 over the first i rows
RECURSIVE voteCountMap(_, _)
voteCountMap(voteCountsData, i) ==
  IF i = 0 THEN [id \in SubmissionIds |-> 0]
  ELSE [voteCountMap(voteCountsData, i - 1) EXCEPT ![voteCountsData[i]] = @ + 1]

\* total_votes = votes where the code has +=
TrackVotesOverwrite(entries, player, n) ==
  IF \E k \in DOMAIN entries : entries[k].player_id = player
    THEN [k \in DOMAIN entries |->
            IF entries[k].player_id = player
              THEN [entries[k] EXCEPT !.total_votes = n]
              ELSE entries[k]]
    ELSE Append(entries, [player_id |-> player, total_votes |-> n])

\* "Track votes per player": create the player's entry when it is missing,
\* then total_votes += votes.  Entries stay in the order of their creation
\* (Object.values of string keys).
TrackVotes(entries, player, n) ==
  IF \E k \in DOMAIN entries : entries[k].player_id = player
    THEN [k \in DOMAIN entries |->
            IF entries[k].player_id = player
              THEN [entries[k] EXCEPT !.total_votes = @ + n]
              ELSE entries[k]]
    ELSE Append(entries, [player_id |-> player, total_votes |-> n])

\* the loop over submissionsData, first i rows
RECURSIVE playerVotes(_, _, _)
playerVotes(submissionsData, vcm, i) ==
  IF i = 0 THEN <<>>
  ELSE TrackVotes(playerVotes(submissionsData, vcm, i - 1),
                  submissionsData[i].player_id, vcm[i])

\* Object.values(playerVotes).sort((a, b) => b.total_votes - a.total_votes):
\* Array.prototype.sort is stable, so the result is the one of inserting each
\* entry behind the entries that do not sort after it.
InsertSorted(sorted, e) ==
  LET before == SelectSeq(sorted, LAMBDA x : x.total_votes >= e.total_votes)
      after == SelectSeq(sorted, LAMBDA x : x.total_votes < e.total_votes)
  IN before \o <<e>> \o after

RECURSIVE SortLeaderboard(_, _)
SortLeaderboard(entries, i) ==
  IF i = 0 THEN <<>> ELSE InsertSorted(SortLeaderboard(entries, i - 1), entries[i])

\* winner = null
NoWinner == [id |-> 0, display_name |-> NONE, votes |-> 0]

\* "Find winner": let maxVotes = 0; let winner = null; over the first i rows,
\* a row of the prompt with votes > maxVotes becomes the winner.  The winner's
\* photo_url is the one of the row's id and is kept as the id.
RECURSIVE FindWinner(_, _, _, _, _)
FindWinner(prompt, submissionsData, vcm, i, start) ==
  IF i = 0 THEN start
  ELSE LET acc == FindWinner(prompt, submissionsData, vcm, i - 1, start)
       IN IF submissionsData[i].prompt_id = prompt /\ vcm[i] > acc.maxVotes
            THEN [maxVotes |-> vcm[i],
                  winner |-> [id |-> i, display_name |-> submissionsData[i].player_id,
                              votes |-> vcm[i]]]
            ELSE acc

\* maxVotes declared once, outside the loop over the prompts
RECURSIVE CarriedMaxVotes(_, _, _)
CarriedMaxVotes(ps, submissionsData, vcm) ==
  IF ps = <<>> THEN 0
  ELSE FindWinner(ps[Len(ps)], submissionsData, vcm, Len(submissionsData),
                  [maxVotes |-> CarriedMaxVotes(SubSeq(ps, 1, Len(ps) - 1),
                                                submissionsData, vcm),
                   winner |-> NoWinner]).maxVotes

PromptWinnersSharedMax(ps, submissionsData, vcm) ==
  [k \in DOMAIN ps |->
     [prompt |-> ps[k],
      winner |-> FindWinner(ps[k], submissionsData, vcm, Len(submissionsData),
                            [maxVotes |-> CarriedMaxVotes(SubSeq(ps, 1, k - 1),
                                                          submissionsData, vcm),
                             winner |-> NoWinner]).winner]]

\* for (const prompt of prompts) ... promptWinners.push({ prompt, winner })
PromptWinners(ps, submissionsData, vcm) ==
  [k \in DOMAIN ps |->
     [prompt |-> ps[k],
      winner |-> FindWinner(ps[k], submissionsData, vcm, Len(submissionsData),
                            [maxVotes |-> 0, winner |-> NoWinner]).winner]]

\* ---- load results when hunt is finished (effect on hunt?.status, prompts) ----
\* three selects, one createSignedUrl per photo, setResults
LoadResults(c) ==
  /\ hunt[c] = "finished"
  /\ ~results[c].loaded
  /\ LET vcm == voteCountMap(vote_rows, Len(vote_rows))
         entries == playerVotes(submission_rows, vcm, Len(submission_rows))
     IN results' = [results EXCEPT ![c] =
          [loaded |-> TRUE,
           promptWinners |-> PromptWinners(prompts[c], submission_rows, vcm),
           leaderboard |-> SortLeaderboard(entries, Len(entries))]]
  /\ UNCHANGED <<submission_rows, vote_rows>>
  /\ UNCHANGED <<lifeVars, walkVars, joinVars, submissionIdByPromptId, ensuring,
                 ownLoad, returned, failVars, photoVars, bootVars, homeVars, castVars, nameVars>>

NextTally ==
  \E c \in Players : LoadResults(c)

SpecTally == InitTally /\ [][NextTally]_vars

\* ---- what the tally is about, stated on the tables ----
\* number of votes rows naming submission id
VoteRowsOf(id) == Cardinality({k \in DOMAIN vote_rows : vote_rows[k] = id})

\* the rows of a prompt, of a player
RowsOfPrompt(prompt) == {i \in DOMAIN submission_rows : submission_rows[i].prompt_id = prompt}
RowsOfPlayer(player) == {i \in DOMAIN submission_rows : submission_rows[i].player_id = player}

\* the first row of the prompt among those with the greatest number of votes
BestRow(prompt) ==
  CHOOSE i \in RowsOfPrompt(prompt) :
    /\ \A j \in RowsOfPrompt(prompt) : VoteRowsOf(j) <= VoteRowsOf(i)
    /\ \A j \in RowsOfPrompt(prompt) : VoteRowsOf(j) = VoteRowsOf(i) => i <= j

\* votes rows naming a submission of the player, as (submission, vote row) pairs
VotesOfPlayer(player) ==
  Cardinality({pair \in RowsOfPlayer(player) \X DOMAIN vote_rows : vote_rows[pair[2]] = pair[1]})

\* the row in which the player is first met
FirstRowOf(player) == CHOOSE i \in RowsOfPlayer(player) : \A j \in RowsOfPlayer(player) : i <= j

\* C7: in a computed tally a prompt with at least one submission has a
\* winner, with votes 0 when none of its submissions has a vote, and only a
\* prompt without submissions has no winner.
C7_WinnerWheneverSubmitted ==
  \A c \in Players : results[c].loaded =>
    \A k \in DOMAIN results[c].promptWinners :
      LET pw == results[c].promptWinners[k]
      IN /\ (RowsOfPrompt(pw.prompt) # {}) <=> (pw.winner # NoWinner)
         /\ (RowsOfPrompt(pw.prompt) # {} /\ \A i \in RowsOfPrompt(pw.prompt) : VoteRowsOf(i) = 0)
              => (pw.winner # NoWinner /\ pw.winner.votes = 0)

\* C8: in a computed tally the winner of a prompt with submissions is the
\* first submission, in input order, among those with the greatest number
\* of votes rows, reported with that number.
C8_WinnerHasGreatestCount ==
  \A c \in Players : results[c].loaded =>
    \A k \in DOMAIN results[c].promptWinners :
      LET pw == results[c].promptWinners[k]
      IN RowsOfPrompt(pw.prompt) # {} =>
           /\ pw.winner.id = BestRow(pw.prompt)
           /\ pw.winner.votes = VoteRowsOf(BestRow(pw.prompt))

\* C9: the leaderboard has one entry per player with a submission, its total
\* is the number of votes rows naming any submission of the player, totals
\* descend, and players with equal totals stand in the order in which the
\* submission list first meets them.
C9_Leaderboard ==
  \A c \in Players : results[c].loaded =>
    LET lb == results[c].leaderboard
    IN /\ {lb[k].player_id : k \in DOMAIN lb} = {p \in Players : RowsOfPlayer(p) # {}}
       /\ \A k \in DOMAIN lb, m \in DOMAIN lb : lb[k].player_id = lb[m].player_id => k = m
       /\ \A k \in DOMAIN lb : lb[k].total_votes = VotesOfPlayer(lb[k].player_id)
       /\ \A k \in DOMAIN lb, m \in DOMAIN lb :
            k < m =>
              \/ lb[k].total_votes > lb[m].total_votes
              \/ /\ lb[k].total_votes = lb[m].total_votes
                 /\ FirstRowOf(lb[k].player_id) < FirstRowOf(lb[m].player_id)

\* C9 witness: p2 is met first and has a submission in each prompt, both
\* voted; p1 has one vote: the leaderboard is p2 with 2, then p1 with 1.
C9_Witness ==
  /\ submission_rows = <<[player_id |-> "p2", prompt_id |-> "a"],
                         [player_id |-> "p1", prompt_id |-> "a"],
                         [player_id |-> "p2", prompt_id |-> "b"]>>
  /\ vote_rows = <<2, 1, 3>>
  /\ results["p1"].loaded
  /\ results["p1"].leaderboard = <<[player_id |-> "p2", total_votes |-> 2],
                                   [player_id |-> "p1", total_votes |-> 1]>>

\* the winner a client's tally reports for a prompt
WinnerOf(c, prompt) ==
  LET pws == results[c].promptWinners
  IN pws[CHOOSE k \in DOMAIN pws : pws[k].prompt = prompt].winner

\* C10: two clients that computed the tally from the same tables report the
\* same winner for every prompt, whatever their play orders, and the same
\* leaderboard; and a step that computes a tally changes no table.
C10_TallyDeterministic ==
  [][ /\ (\E c \in Players : results'[c] # results[c]) =>
           /\ submission_rows' = submission_rows
           /\ vote_rows' = vote_rows
           /\ hunt_players' = hunt_players
           /\ <<status, finished_at, submissions, votes>>' = <<status, finished_at, submissions, votes>>
      /\ \A c \in Players, d \in Players :
           (results'[c].loaded /\ results'[d].loaded) =>
             /\ \A p \in Prompts : WinnerOf(c, p)' = WinnerOf(d, p)'
             /\ results'[c].leaderboard = results'[d].leaderboard ]_vars

\* C10 witness: the two clients have different play orders, both prompts
\* have a voted submission, and both clients have computed the tally.
C10_Witness ==
  /\ prompts["p1"] # prompts["p2"]
  /\ results["p1"].loaded /\ results["p2"].loaded
  /\ \A p \in Prompts : WinnerOf("p1", p) # NoWinner
  /\ \E p \in Prompts : WinnerOf("p1", p).votes = 2

\* ------------------------------------------------------------------------
\* SpecPhoto: attaching a photo
\* ------------------------------------------------------------------------
\* The hunt is active and the host's client has a submission row, still
\* without a photo, for each prompt (ensureSubmission returns its id).  One
\* onFileSelected call is in flight at a time: the file dialog is open for one
\* prompt.  A path is <<the prompt, n>>, n being the number makeId gave it.
MaxUploads == 3

\* getSignedUrlWithRetry(path, tries = 6, delayMs = 400)
tries == 6

Attach(stage, prompt, path, i) ==
  [stage |-> stage, prompt |-> prompt, path |-> path, i |-> i]

InitPhoto ==
  /\ status = "active"
  /\ finished_at = [p \in Players |-> "null"]
  /\ submissions = {<<Host, p>> : p \in Prompts}
  /\ inbox = [c \in Players |-> NONE]
  /\ hunt = [c \in Players |-> "active"]
  /\ finishedAt = [c \in Players |-> FALSE]
  /\ prompts = [c \in Players |-> <<"a", "b">>]
  /\ pc = [c \in Players |-> "idle"]
  /\ fhTarget = [c \in Players |-> NONE]
  /\ tf = [c \in Players |-> "idle"]
  /\ photo_path = NoPhotos
  /\ blobs = {}
  /\ uploads = 0
  /\ statusByPromptId = [p \in Prompts |-> "needs_photo"]
  /\ photoUrlByPromptId = NoUrls
  /\ attach = NoAttach
  /\ ParkedWalk
  /\ ParkedJoin
  /\ ParkedSub
  /\ ParkedTally
  /\ ParkedFail
  /\ ParkedBoot
  /\ ParkedHome
  /\ ParkedCast
  /\ ParkedName

\* const isBusy = status === "saving" || status === "uploading"
isBusy(p) == statusByPromptId[p] \in {"saving", "uploading"}

\* setActivePromptId(promptId); ensureSubmission returns the existing id; the
\* file dialog opens
onPromptClick(p) ==
  /\ attach.stage = "idle"
  /\ attach' = Attach("dialog", p, 0, 0)
  /\ UNCHANGED <<photo_path, blobs, uploads, statusByPromptId, photoUrlByPromptId>>
  /\ UNCHANGED <<lifeVars, walkVars, joinVars, subVars, tallyVars, failVars, bootVars, homeVars, castVars, nameVars>>

\* ---- a click on the prompt's list item ----
PromptClick(p) ==
  /\ ~isBusy(p)
  /\ onPromptClick(p)

\* ---- the Retake photo button, shown with the preview ----
Retake(p) ==
  /\ photoUrlByPromptId[p] # 0
  /\ onPromptClick(p)

\* ---- the dialog is closed without a file: onFileSelected(null) returns ----
FileDialogCancelled ==
  /\ attach.stage = "dialog"
  /\ attach' = NoAttach
  /\ UNCHANGED <<photo_path, blobs, uploads, statusByPromptId, photoUrlByPromptId>>
  /\ UNCHANGED <<lifeVars, walkVars, joinVars, subVars, tallyVars, failVars, bootVars, homeVars, castVars, nameVars>>

\* ---- onFileSelected: status uploading, a fresh path, the upload is sent ----
FileSelected ==
  /\ attach.stage = "dialog"
  /\ uploads < MaxUploads
  /\ uploads' = uploads + 1
  /\ statusByPromptId' = [statusByPromptId EXCEPT ![attach.prompt] = "uploading"]
  /\ attach' = Attach("upload", attach.prompt, uploads + 1, 0)
  /\ UNCHANGED <<photo_path, blobs, photoUrlByPromptId>>
  /\ UNCHANGED <<lifeVars, walkVars, joinVars, subVars, tallyVars, failVars, bootVars, homeVars, castVars, nameVars>>

\* catch: status error; finally: setActivePromptId(null)
AttachThrows ==
  /\ statusByPromptId' = [statusByPromptId EXCEPT ![attach.prompt] = "error"]
  /\ attach' = NoAttach

\* the upload returned without an error: the update of photo_path is sent
UploadDone ==
  /\ attach.stage = "upload"
  /\ blobs' = blobs \cup {<<attach.prompt, attach.path>>}
  /\ attach' = [attach EXCEPT !.stage = "update"]
  /\ UNCHANGED <<photo_path, uploads, statusByPromptId, photoUrlByPromptId>>
  /\ UNCHANGED <<lifeVars, walkVars, joinVars, subVars, tallyVars, failVars, bootVars, homeVars, castVars, nameVars>>

\* an upload whose error is not looked at
UploadErrorIgnored ==
  /\ attach.stage = "upload"
  /\ attach' = [attach EXCEPT !.stage = "update"]
  /\ UNCHANGED <<photo_path, blobs, uploads, statusByPromptId, photoUrlByPromptId>>
  /\ UNCHANGED <<lifeVars, walkVars, joinVars, subVars, tallyVars, failVars, bootVars, homeVars, castVars, nameVars>>

\* if (uploadError) throw uploadError
UploadFail ==
  /\ attach.stage = "upload"
  /\ AttachThrows
  /\ UNCHANGED <<photo_path, blobs, uploads, photoUrlByPromptId>>
  /\ UNCHANGED <<lifeVars, walkVars, joinVars, subVars, tallyVars, failVars, bootVars, homeVars, castVars, nameVars>>

\* update({ photo_path: path }).eq("id", submissionId) returned without an
\* error: setPhotoPathByPromptId, status saved, then getSignedUrlWithRetry(path)
\* starts with i = 0
PhotoPathUpdated ==
  /\ attach.stage = "update"
  /\ photo_path' = [photo_path EXCEPT ![<<Host, attach.prompt>>] = attach.path]
  /\ statusByPromptId' = [statusByPromptId EXCEPT ![attach.prompt] = "saved"]
  /\ attach' = [attach EXCEPT !.stage = "url", !.i = 0]
  /\ UNCHANGED <<blobs, uploads, photoUrlByPromptId>>
  /\ UNCHANGED <<lifeVars, walkVars, joinVars, subVars, tallyVars, failVars, bootVars, homeVars, castVars, nameVars>>

\* if (updateError) throw updateError
PhotoPathUpdateFail ==
  /\ attach.stage = "update"
  /\ AttachThrows
  /\ UNCHANGED <<photo_path, blobs, uploads, photoUrlByPromptId>>
  /\ UNCHANGED <<lifeVars, walkVars, joinVars, subVars, tallyVars, failVars, bootVars, homeVars, castVars, nameVars>>

\* a loop that never gives up
LoopForever(i) == TRUE

\* for (let i = 0; i < tries; i++)
LoopCondition(i) == i < tries

\* ---- getSignedUrlWithRetry: one pass of the loop body ----
\* createSignedUrl; if (!error && data?.signedUrl) return data.signedUrl (and
\* onFileSelected sets photoUrlByPromptId); else sleep and i++
SignedUrlAttempt(ok) ==
  /\ attach.stage = "url"
  /\ LoopCondition(attach.i)
  /\ IF ok
       THEN /\ photoUrlByPromptId' =
                 [photoUrlByPromptId EXCEPT ![attach.prompt] = attach.path]
            /\ attach' = NoAttach
       ELSE /\ attach' = [attach EXCEPT !.i = @ + 1]
            /\ UNCHANGED photoUrlByPromptId
  /\ UNCHANGED <<photo_path, blobs, uploads, statusByPromptId>>
  /\ UNCHANGED <<lifeVars, walkVars, joinVars, subVars, tallyVars, failVars, bootVars, homeVars, castVars, nameVars>>

\* the loop is left: return null; if (signedUrl) is false, nothing is set
SignedUrlNull ==
  /\ attach.stage = "url"
  /\ ~LoopCondition(attach.i)
  /\ attach' = NoAttach
  /\ UNCHANGED <<photo_path, blobs, uploads, statusByPromptId, photoUrlByPromptId>>
  /\ UNCHANGED <<lifeVars, walkVars, joinVars, subVars, tallyVars, failVars, bootVars, homeVars, castVars, nameVars>>

NextPhoto ==
  \/ \E p \in Prompts : PromptClick(p)
  \/ \E p \in Prompts : Retake(p)
  \/ FileDialogCancelled
  \/ FileSelected
  \/ UploadDone
  \/ UploadFail
  \/ PhotoPathUpdated
  \/ PhotoPathUpdateFail
  \/ \E ok \in BOOLEAN : SignedUrlAttempt(ok)
  \/ SignedUrlNull

SpecPhoto == InitPhoto /\ [][NextPhoto]_vars

\* Every call to createSignedUrl returns, and so does the sleep after it.
SpecPhotoLive ==
  /\ SpecPhoto
  /\ WF_vars(\E ok \in BOOLEAN : SignedUrlAttempt(ok))
  /\ WF_vars(SignedUrlNull)

\* ------------------------------------------------------------------------
\* Properties of the attach flow (SpecPhoto, SpecPhotoLive)
\* ------------------------------------------------------------------------
\* the row of the prompt the call in flight is about
AttachRow == <<Host, attach.prompt>>

\* C13: a step that writes a photo_path writes a path whose upload has
\* returned without an error; and the step in which the upload of a call
\* fails writes no photo_path, sets the prompt's status to error and ends
\* the call.
C13_PhotoPathOnlyAfterUpload ==
  [][/\ \A k \in Players \X Prompts :
          photo_path'[k] # photo_path[k] => <<k[2], photo_path'[k]>> \in blobs
     /\ (attach.stage = "upload" /\ attach'.stage # "upload"
           /\ <<attach.prompt, attach.path>> \notin blobs')
          => /\ photo_path' = photo_path
             /\ statusByPromptId'[attach.prompt] = "error"
             /\ attach' = NoAttach]_vars

\* C13 witness: the upload for one prompt failed (no blob of that prompt, no
\* photo_path, status error) and the photo of the other prompt is attached.
C13_Witness ==
  \E p \in Prompts, q \in Prompts :
    /\ statusByPromptId[p] = "error"
    /\ photo_path[<<Host, p>>] = 0
    /\ \A n \in 1..uploads : <<p, n>> \notin blobs
    /\ statusByPromptId[q] = "saved"
    /\ photo_path[<<Host, q>>] # 0
    /\ <<q, photo_path[<<Host, q>>]>> \in blobs

\* C14: getSignedUrlWithRetry makes at most tries attempts and then returns:
\* when it returns a URL it is the URL of the path just attached, from an
\* attempt within the budget; when it returns null every attempt of the budget
\* was made and no preview is set; either way the prompt stays saved and its
\* photo_path stays; and the call always returns.
C14_SignedUrlRetryBounded ==
  /\ [](attach.stage = "url" => attach.i <= tries)
  /\ [][(attach.stage = "url" /\ attach'.stage # "url")
          => /\ attach' = NoAttach
             /\ statusByPromptId'[attach.prompt] = "saved"
             /\ photo_path' = photo_path
             /\ \/ /\ attach.i < tries
                   /\ photoUrlByPromptId'[attach.prompt] = attach.path
                \/ /\ attach.i = tries
                   /\ photoUrlByPromptId' = photoUrlByPromptId]_vars
  /\ (attach.stage = "url") ~> (attach.stage = "idle")

\* C14 witness: getSignedUrlWithRetry returned null for the first photo of a
\* prompt: the prompt is saved, its photo_path is set, it has no preview.
C14_Witness ==
  \E p \in Prompts :
    /\ attach.stage = "idle"
    /\ statusByPromptId[p] = "saved"
    /\ photo_path[<<Host, p>>] # 0
    /\ photoUrlByPromptId[p] = 0

\* C20: a photo_path that is set is not written again.
C20_PhotoPathWrittenOnce ==
  [][\A k \in Players \X Prompts :
       photo_path[k] # 0 => photo_path'[k] = photo_path[k]]_vars

\* ------------------------------------------------------------------------
\* SpecDecide: the finishHunt decision over rows with and without a photo
\* ------------------------------------------------------------------------
\* The hunt is active, both players are members and unfinished, every client
\* shows the active screen.  The submissions table holds any rows of the two
\* players, each either still without a photo (photo_path null) or with one
\* (its path is <<the prompt, 1>>).
InitDecide ==
  /\ status = "active"
  /\ finished_at = [p \in Players |-> "null"]
  /\ submissions \in SUBSET (Players \X Prompts)
  /\ photo_path \in [Players \X Prompts -> {0, 1}]
  /\ \A k \in Players \X Prompts : k \notin submissions => photo_path[k] = 0
  /\ blobs = {<<k[2], 1>> : k \in {j \in submissions : photo_path[j] = 1}}
  /\ inbox = [c \in Players |-> NONE]
  /\ hunt = [c \in Players |-> "active"]
  /\ finishedAt = [c \in Players |-> FALSE]
  /\ prompts = [c \in Players |-> <<"a", "b">>]
  /\ pc = [c \in Players |-> "idle"]
  /\ fhTarget = [c \in Players |-> NONE]
  /\ tf = [c \in Players |-> "idle"]
  /\ uploads = 1
  /\ statusByPromptId = NoStatus
  /\ photoUrlByPromptId = NoUrls
  /\ attach = NoAttach
  /\ ParkedWalk
  /\ ParkedJoin
  /\ ParkedSub
  /\ ParkedTally
  /\ ParkedFail
  /\ ParkedBoot
  /\ ParkedHome
  /\ ParkedCast
  /\ ParkedName

NextDecide ==
  \/ \E c \in Players : HuntChangeEvent(c)
  \/ \E c \in Players : FinishHunt(c)
  \/ \E c \in Players, ok \in BOOLEAN : FinishHuntCheck(c, ok)
  \/ \E c \in Players : FinishHuntWrite(c)
  \/ \E c \in Players : FinishHuntFail(c) /\ UNCHANGED failVars
  \/ \E c \in Players : FinishHuntAck(c)
  \/ \E c \in Players : UndoFinish(c)

SpecDecide == InitDecide /\ [][NextDecide]_vars

\* the distinct players whose submission to prompt p has a photo
PhotoPlayers(p) ==
  {k[1] : k \in {j \in submissions : j[2] = p /\ photo_path[j] # 0}}

\* C19: when a finishHunt call decides for voting, some prompt has photos of
\* at least two distinct players; rows without a photo do not count.
C19_VotingOnlyWhenContestedByPhotos ==
  [][\A c \in Players :
       (pc[c] = "fh_check" /\ pc'[c] = "fh_write" /\ fhTarget'[c] = "voting")
         => \E p \in Prompts : Cardinality(PhotoPlayers(p)) >= 2]_vars

\* ------------------------------------------------------------------------
\* SpecBoot: launches of the page in one browser
\* ------------------------------------------------------------------------
\* One browser, one tab, one hunt (hunt_id stays in localStorage) and one of
\* its prompts.  A launch runs, after the first render, the boot effect and
\* the ensure-player effect in this order, both with the state of the first
\* render: the boot effect's setPlayerId(stored) takes effect in the next
\* render only, so the ensure-player effect sees playerId null whatever is
\* stored.  A player id is the number of its row; a submissions row is
\* [player_id, photo].
MaxPlayers == 3
MaxOwnRows == 3

\* what the own-submissions load of player q sets for the prompt: the id of
\* q's last row and saved or needs_photo, or nothing at all
OwnRowsResult(rows, q) ==
  LET mine == {i \in DOMAIN rows : rows[i].player_id = q}
  IN IF mine = {}
       THEN [id |-> 0, status |-> "idle"]
       ELSE LET last == CHOOSE i \in mine : \A j \in mine : j <= i
            IN [id |-> last,
                status |-> IF rows[last].photo THEN "saved" ELSE "needs_photo"]

\* the submissions rows as the stopped page left them
StoppedRows == <<[player_id |-> 1, photo |-> FALSE]>>

\* The first session is over: the player row 1 exists and is stored, the page
\* inserted its submission row for the prompt and stopped before a photo was
\* attached; every call of that session has returned.
InitBoot ==
  /\ players = 1
  /\ stored = 1
  /\ playerId = 1
  /\ ensurePlayer = "idle"
  /\ own_rows = StoppedRows
  /\ ownId = 1
  /\ ownStatus = "needs_photo"
  /\ bootLoads = {}
  /\ InitLife
  /\ ParkedWalk
  /\ ParkedJoin
  /\ ParkedSub
  /\ ParkedTally
  /\ ParkedFail
  /\ ParkedPhoto
  /\ ParkedHome
  /\ ParkedCast
  /\ ParkedName

\* ---- a launch (restart, reload): first render, effects, second render ----
\* State starts empty; the boot effect sets playerId from localStorage; the
\* ensure-player effect (playerId null in its closure) sends the insert; in
\* the next render the own-submissions load runs for the stored id.  An
\* insert the page before had in flight may still add its row (lost = TRUE).
Launch(lost) ==
  /\ lost => (ensurePlayer = "insert" /\ players < MaxPlayers)
  /\ players' = IF lost THEN players + 1 ELSE players
  /\ playerId' = stored
  /\ ensurePlayer' = "insert"
  /\ ownId' = 0
  /\ ownStatus' = "idle"
  /\ bootLoads' = IF stored = 0 THEN {} ELSE {OwnRowsResult(own_rows, stored)}
  /\ UNCHANGED <<stored, own_rows>>
  /\ UNCHANGED <<lifeVars, walkVars, joinVars, subVars, tallyVars, failVars, photoVars, homeVars, castVars, nameVars>>

\* ---- ensure player exists: the insert returned a row ----
\* localStorage.setItem("player_id", data.id); setPlayerId(data.id); the
\* effects keyed on playerId run again
EnsurePlayerInserted ==
  /\ ensurePlayer = "insert"
  /\ players < MaxPlayers
  /\ players' = players + 1
  /\ stored' = players + 1
  /\ playerId' = players + 1
  /\ ensurePlayer' = "idle"
  /\ bootLoads' = bootLoads \cup {OwnRowsResult(own_rows, players + 1)}
  /\ UNCHANGED <<own_rows, ownId, ownStatus>>
  /\ UNCHANGED <<lifeVars, walkVars, joinVars, subVars, tallyVars, failVars, photoVars, homeVars, castVars, nameVars>>

\* ---- ensure player exists: the insert failed: setError, return ----
EnsurePlayerFail ==
  /\ ensurePlayer = "insert"
  /\ ensurePlayer' = "idle"
  /\ UNCHANGED <<players, stored, playerId, own_rows, ownId, ownStatus, bootLoads>>
  /\ UNCHANGED <<lifeVars, walkVars, joinVars, subVars, tallyVars, failVars, photoVars, homeVars, castVars, nameVars>>

\* ---- load own submissions: a select returned ----
\* setSubmissionIdByPromptId(nextSubmissionIds); setStatusByPromptId(nextStatus)
BootLoadApply ==
  /\ \E r \in bootLoads :
       /\ bootLoads' = bootLoads \ {r}
       /\ ownId' = r.id
       /\ ownStatus' = r.status
  /\ UNCHANGED <<players, stored, playerId, ensurePlayer, own_rows>>
  /\ UNCHANGED <<lifeVars, walkVars, joinVars, subVars, tallyVars, failVars, photoVars, homeVars, castVars, nameVars>>

\* ---- a click on the prompt: ensureSubmission, then the file dialog ----
\* the existing id is returned, or a row is inserted for the page's playerId
BootPromptClick ==
  /\ playerId # 0
  /\ ownStatus \notin {"saving", "uploading"}
  /\ IF ownId # 0
       THEN UNCHANGED <<own_rows, ownId, ownStatus>>
       ELSE /\ Len(own_rows) < MaxOwnRows
            /\ own_rows' = Append(own_rows, [player_id |-> playerId, photo |-> FALSE])
            /\ ownId' = Len(own_rows) + 1
            /\ ownStatus' = "needs_photo"
  /\ UNCHANGED <<players, stored, playerId, ensurePlayer, bootLoads>>
  /\ UNCHANGED <<lifeVars, walkVars, joinVars, subVars, tallyVars, failVars, photoVars, homeVars, castVars, nameVars>>

\* ---- onFileSelected: upload, update photo_path of the row ownId, saved ----
BootAttach ==
  /\ ownId # 0
  /\ ownStatus \notin {"saving", "uploading"}
  /\ own_rows' = [own_rows EXCEPT ![ownId].photo = TRUE]
  /\ ownStatus' = "saved"
  /\ UNCHANGED <<players, stored, playerId, ensurePlayer, ownId, bootLoads>>
  /\ UNCHANGED <<lifeVars, walkVars, joinVars, subVars, tallyVars, failVars, photoVars, homeVars, castVars, nameVars>>

NextBoot ==
  \/ \E lost \in BOOLEAN : Launch(lost)
  \/ EnsurePlayerInserted
  \/ EnsurePlayerFail
  \/ BootLoadApply
  \/ BootPromptClick
  \/ BootAttach

SpecBoot == InitBoot /\ [][NextBoot]_vars

\* C21: once a player id is stored, the stored id stays, no row is added to
\* the players table, and the page uses no id but the stored one.
C21_PlayerIdentityImmutable ==
  [][stored # 0
       => /\ stored' = stored
          /\ players' = players
          /\ playerId' \in {0, stored}]_vars

\* the page is at rest: its player insert and its loads have returned
BootAtRest == ensurePlayer = "idle" /\ bootLoads = {}

\* C29: after a restart, once the page is at rest and with it the reload of
\* its own submissions, and while the row of the stopped page is still the
\* only row and without a photo: the prompt is in needs_photo under that
\* row's id, and no step (a click, a file selection) inserts another row.
C29_RestartReentersExistingRow ==
  [][(BootAtRest /\ own_rows = StoppedRows)
       => /\ ownId = 1
          /\ ownStatus = "needs_photo"
          /\ Len(own_rows') = 1]_vars

\* ------------------------------------------------------------------------
\* SpecHome: choosing a hunt.  One page of a player who is a member of the
\* hunts.  The two hunts that exist at the start are active, a hunt made by
\* createHunt stays in the lobby.  The page shows its prompt list when huntId
\* is set and hunt is null or active (the lobby, voting and results screens
\* are chosen by hunt.status).
\* ------------------------------------------------------------------------
Packs == {"X", "Y"}
\* Cap on the number of rows of the hunts table
MaxHunts == 3
\* Cap on the number of submissions rows
MaxPlaced == 1

\* hunts.code of the hunt with a given id
Codes == <<"H1", "H2", "H3", "H4", "H5">>
\* what can be in the join-code field when Join is pressed
CodeInputs == {"", "  ", "h1", "H2", "ZZ"}
\* joinCode.trim().toUpperCase()
TrimUpper(code) ==
  CASE code = "  " -> ""
    [] code = "h1" -> "H1"
    [] OTHER -> code

HuntIds == 1..Len(hunts)
\* hunts.status of hunt h
HuntStatus(h) == IF h <= 2 THEN "active" ELSE "lobby"
\* hunt?.pack of the hunt state holding row h (undefined while hunt is null)
PackOf(h) == IF h = 0 THEN NONE ELSE hunts[h]

\* two hunts of different packs exist, the page is on the home screen and
\* the packs load has not answered yet
InitHome ==
  /\ hunts = <<"X", "Y">>
  /\ placed = {}
  /\ huntId = 0
  /\ homeHunt = 0
  /\ homePrompts = NONE
  /\ huntLoads = {}
  /\ promptLoads = {}
  /\ joining = NONE
  /\ createPack = ""
  /\ error = NONE
  /\ InitLife
  /\ ParkedWalk
  /\ ParkedJoin
  /\ ParkedSub
  /\ ParkedTally
  /\ ParkedFail
  /\ ParkedPhoto
  /\ ParkedBoot
  /\ ParkedCast
  /\ ParkedName

\* the packs load answers: if (!createPack && data.length > 0)
\* setCreatePack(data[0].slug)
PacksLoaded ==
  /\ createPack = ""
  /\ createPack' = "X"
  /\ UNCHANGED <<hunts, placed, huntId, homeHunt, homePrompts, huntLoads, promptLoads,
                 joining, error>>
  /\ UNCHANGED <<lifeVars, walkVars, joinVars, subVars, tallyVars, failVars, photoVars, bootVars, castVars, nameVars>>

\* the pack <select>: onChange={(e) => setCreatePack(e.target.value)}, its
\* options are the loaded packs
SetCreatePack(pack) ==
  /\ createPack # ""
  /\ huntId = 0
  /\ createPack' = pack
  /\ UNCHANGED <<hunts, placed, huntId, homeHunt, homePrompts, huntLoads, promptLoads,
                 joining, error>>
  /\ UNCHANGED <<lifeVars, walkVars, joinVars, subVars, tallyVars, failVars, photoVars, bootVars, castVars, nameVars>>

\* setHuntId(h) and the hunt load effect of the render that follows:
\* if (!huntId) setHunt(null), else the select of the hunts row is sent
SetHuntId(h) ==
  /\ huntId' = h
  /\ huntLoads' = huntLoads \cup {h}

\* joinHuntByCode up to its select: setError(null); code =
\* joinCode.trim().toUpperCase(); if (!code) return; the select by code is
\* sent
JoinHuntByCodeHome(code) ==
  /\ huntId = 0
  /\ joining = NONE
  /\ error' = NONE
  /\ joining' = IF TrimUpper(code) = "" THEN NONE ELSE TrimUpper(code)
  /\ UNCHANGED <<hunts, placed, huntId, homeHunt, homePrompts, huntLoads, promptLoads,
                 createPack>>
  /\ UNCHANGED <<lifeVars, walkVars, joinVars, subVars, tallyVars, failVars, photoVars, bootVars, castVars, nameVars>>

\* the select answers with the hunt of that code: setHuntId(data.id)
JoinFound ==
  /\ joining # NONE
  /\ \E h \in HuntIds : Codes[h] = joining /\ SetHuntId(h)
  /\ joining' = NONE
  /\ UNCHANGED <<hunts, placed, homeHunt, homePrompts, promptLoads, createPack, error>>
  /\ UNCHANGED <<lifeVars, walkVars, joinVars, subVars, tallyVars, failVars, photoVars, bootVars, castVars, nameVars>>

\* the select answers with an error (.single() finds no row, or the call
\* fails): setError(error.message), return
JoinError ==
  /\ joining # NONE
  /\ joining' = NONE
  /\ error' = "join failed"
  /\ UNCHANGED <<hunts, placed, huntId, homeHunt, homePrompts, huntLoads, promptLoads,
                 createPack>>
  /\ UNCHANGED <<lifeVars, walkVars, joinVars, subVars, tallyVars, failVars, photoVars, bootVars, castVars, nameVars>>

\* createHunt with nothing selected: setError(null); if (!pack)
\* { setError("Please select a pack."); return; }
CreateHuntNoPack ==
  /\ huntId = 0
  /\ createPack = ""
  /\ error' = "Please select a pack."
  /\ UNCHANGED <<hunts, placed, huntId, homeHunt, homePrompts, huntLoads, promptLoads,
                 joining, createPack>>
  /\ UNCHANGED <<lifeVars, walkVars, joinVars, subVars, tallyVars, failVars, photoVars, bootVars, castVars, nameVars>>

\* createHunt with a pack, every write succeeding: the hunts row is
\* inserted, setHuntId(hunt.id)
CreateHuntHome ==
  /\ huntId = 0
  /\ createPack # ""
  /\ Len(hunts) < MaxHunts
  /\ hunts' = Append(hunts, createPack)
  /\ error' = NONE
  /\ SetHuntId(Len(hunts) + 1)
  /\ UNCHANGED <<placed, homeHunt, homePrompts, promptLoads, joining, createPack>>
  /\ UNCHANGED <<lifeVars, walkVars, joinVars, subVars, tallyVars, failVars, photoVars, bootVars, castVars, nameVars>>

\* createHunt with a pack, the insert of the hunts row failing:
\* setError(huntError.message), return
CreateHuntInsertFail ==
  /\ huntId = 0
  /\ createPack # ""
  /\ error' = "create failed"
  /\ UNCHANGED <<hunts, placed, huntId, homeHunt, homePrompts, huntLoads, promptLoads,
                 joining, createPack>>
  /\ UNCHANGED <<lifeVars, walkVars, joinVars, subVars, tallyVars, failVars, photoVars, bootVars, castVars, nameVars>>

\* resumeGame(gameHuntId) from the list of the player's games
ResumeGame(h) ==
  /\ huntId = 0
  /\ SetHuntId(h)
  /\ UNCHANGED <<hunts, placed, homeHunt, homePrompts, promptLoads, joining, createPack,
                 error>>
  /\ UNCHANGED <<lifeVars, walkVars, joinVars, subVars, tallyVars, failVars, photoVars, bootVars, castVars, nameVars>>

\* changeHunt: setHuntId(null), setHunt(null), setPrompts([]); the effects of
\* the render that follows set the same values again.  Selects already sent
\* are not cancelled.
ChangeHuntHome ==
  /\ huntId # 0
  /\ huntId' = 0
  /\ homeHunt' = 0
  /\ homePrompts' = NONE
  /\ UNCHANGED <<hunts, placed, huntLoads, promptLoads, joining, createPack, error>>
  /\ UNCHANGED <<lifeVars, walkVars, joinVars, subVars, tallyVars, failVars, photoVars, bootVars, castVars, nameVars>>

\* a hunt select answers: setHunt(data), whatever huntId is by now; the
\* prompts effect (deps [hunt?.pack]) of the render that follows sends the
\* select of that pack's prompts when the pack changed
HuntLoaded(h) ==
  /\ h \in huntLoads
  /\ huntLoads' = huntLoads \ {h}
  /\ homeHunt' = h
  /\ promptLoads' = IF PackOf(h) # PackOf(homeHunt)
                    THEN promptLoads \cup {PackOf(h)}
                    ELSE promptLoads
  /\ UNCHANGED <<hunts, placed, huntId, homePrompts, joining, createPack, error>>
  /\ UNCHANGED <<lifeVars, walkVars, joinVars, subVars, tallyVars, failVars, photoVars, bootVars, castVars, nameVars>>

\* a hunt select fails: console.error, setError(error.message), return
HuntLoadFailed(h) ==
  /\ h \in huntLoads
  /\ huntLoads' = huntLoads \ {h}
  /\ error' = "load failed"
  /\ UNCHANGED <<hunts, placed, huntId, homeHunt, homePrompts, promptLoads, joining,
                 createPack>>
  /\ UNCHANGED <<lifeVars, walkVars, joinVars, subVars, tallyVars, failVars, photoVars, bootVars, castVars, nameVars>>

\* a prompts select answers: setPrompts(shuffled), whatever hunt is by now
PromptsLoaded(pack) ==
  /\ pack \in promptLoads
  /\ promptLoads' = promptLoads \ {pack}
  /\ homePrompts' = pack
  /\ UNCHANGED <<hunts, placed, huntId, homeHunt, huntLoads, joining, createPack, error>>
  /\ UNCHANGED <<lifeVars, walkVars, joinVars, subVars, tallyVars, failVars, photoVars, bootVars, castVars, nameVars>>

\* a prompt of the list is clicked: ensureSubmission inserts
\* {hunt_id: huntId, player_id, prompt_id} for the prompt shown
PromptClickHome ==
  /\ huntId # 0
  /\ homeHunt = 0 \/ HuntStatus(homeHunt) = "active"
  /\ homePrompts # NONE
  /\ Cardinality(placed) < MaxPlaced
  /\ placed' = placed \cup {[hunt_id |-> huntId, pack |-> homePrompts]}
  /\ UNCHANGED <<hunts, huntId, homeHunt, homePrompts, huntLoads, promptLoads, joining,
                 createPack, error>>
  /\ UNCHANGED <<lifeVars, walkVars, joinVars, subVars, tallyVars, failVars, photoVars, bootVars, castVars, nameVars>>

NextHome ==
  \/ PacksLoaded
  \/ \E pack \in Packs : SetCreatePack(pack)
  \/ \E code \in CodeInputs : JoinHuntByCodeHome(code)
  \/ JoinFound
  \/ JoinError
  \/ CreateHuntNoPack
  \/ CreateHuntHome
  \/ CreateHuntInsertFail
  \/ \E h \in HuntIds : ResumeGame(h)
  \/ ChangeHuntHome
  \/ \E h \in HuntIds : HuntLoaded(h)
  \/ \E h \in HuntIds : HuntLoadFailed(h)
  \/ \E pack \in Packs : PromptsLoaded(pack)
  \/ PromptClickHome

SpecHome == InitHome /\ [][NextHome]_vars

\* C23: every submissions row references a prompt of the pack of the hunt it
\* references, also when the page changed hunts while hunt and prompt loads
\* were in flight.
C23_SubmissionPromptOfHuntPack ==
  \A r \in placed : hunts[r.hunt_id] = r.pack

\* a handler call stopped by its input validation
ValidationReturn ==
  \/ \E code \in CodeInputs : TrimUpper(code) = "" /\ JoinHuntByCodeHome(code)
  \/ CreateHuntNoPack

\* C30: createHunt with no pack selected and joinHuntByCode with an empty or
\* whitespace-only code each leave a visible error, send nothing to a ledger
\* and leave the hunt selection as it was.
C30_ValidationErrorSurfaced ==
  [][ValidationReturn =>
       /\ error' # NONE
       /\ UNCHANGED <<hunts, placed, huntLoads, promptLoads, joining>>
       /\ huntId' = huntId]_vars

\* ------------------------------------------------------------------------
\* SpecCast: the voting walk with the votes table kept by rows and the
\* failure of a vote reported.  The walk and the transition to finished
\* are those of SpecVote; castVote is told here with the row it inserts.
\* Each page has its playerId.
\* ------------------------------------------------------------------------
\* Cap on the number of rows of the votes table (SpecCast)
MaxBallots == 2

\* State after the hunt moved to voting and the load effect of every client
\* has run: prompt a has submissions of both players, prompt b one of p1,
\* and every client has them in allSubmissions.
InitCast ==
  /\ status = "voting"
  /\ finished_at = [p \in Players |-> "set"]
  /\ submissions = {<<"p1", "a">>, <<"p2", "a">>, <<"p1", "b">>}
  /\ inbox = [c \in Players |-> NONE]
  /\ hunt = [c \in Players |-> "voting"]
  /\ finishedAt = [c \in Players |-> TRUE]
  /\ prompts = [c \in Players |-> IF c = Host THEN <<"a", "b">> ELSE <<"b", "a">>]
  /\ pc = [c \in Players |-> "idle"]
  /\ fhTarget = [c \in Players |-> NONE]
  /\ tf = [c \in Players |-> "idle"]
  /\ votes = 0
  /\ vload = [c \in Players |-> "idle"]
  /\ allSubmissions = [c \in Players |-> submissions]
  /\ currentPromptIndex = [c \in Players |-> 0]
  /\ votedPromptIds = [c \in Players |-> {}]
  /\ cv = [c \in Players |-> NoVote]
  /\ walk = [c \in Players |-> [adv |-> 0]]
  /\ ParkedCast
  /\ ParkedName
  /\ ParkedJoin
  /\ ParkedSub
  /\ ParkedTally
  /\ ParkedFail
  /\ ParkedPhoto
  /\ ParkedBoot
  /\ ParkedHome

\* castVote(submissionId) up to its insert: the row is {submission_id:
\* submissionId, player_id: playerId, category: "best"}
CastVoteRow(c, s) ==
  /\ Screen(c) = "voting"
  /\ s \in allSubmissions[c]
  /\ s[2] = CurrentPrompt(c)
  /\ s[2] \notin votedPromptIds[c]
  /\ cv[c] = NoVote
  /\ Len(ballots) < MaxBallots
  /\ cv' = [cv EXCEPT ![c] = [cur |-> CurrentPrompt(c), beforeLast |-> BeforeLast(c)]]
  /\ casting' = [casting EXCEPT ![c] =
                   [submission_id |-> s, player_id |-> c, category |-> "best"]]
  /\ UNCHANGED <<lifeVars, votes, vload, allSubmissions, currentPromptIndex,
                 votedPromptIds, walk, ballots>>
  /\ UNCHANGED <<joinVars, subVars, tallyVars, failVars, photoVars, bootVars, homeVars, nameVars>>

\* the insert succeeded: the row is in the table, advanceToNextPrompt() of
\* the render that was clicked
CastVoteRowInserted(c) ==
  /\ cv[c] # NoVote
  /\ casting[c] # NoBallot
  /\ ballots' = Append(ballots, casting[c])
  /\ votes' = Len(ballots')
  /\ casting' = [casting EXCEPT ![c] = NoBallot]
  /\ cv' = [cv EXCEPT ![c] = NoVote]
  /\ advanceToNextPrompt(c, cv[c].cur, cv[c].beforeLast)
  /\ UNCHANGED <<status, finished_at, submissions, inbox, hunt, finishedAt, prompts, pc,
                 fhTarget, vload, allSubmissions>>
  /\ UNCHANGED <<joinVars, subVars, tallyVars, failVars, photoVars, bootVars, homeVars, nameVars>>

\* a failed insert that went on to advanceToNextPrompt()
CastVoteRowFailAdvances(c) ==
  /\ cv[c] # NoVote
  /\ casting[c] # NoBallot
  /\ casting' = [casting EXCEPT ![c] = NoBallot]
  /\ cv' = [cv EXCEPT ![c] = NoVote]
  /\ SetError(c, "castVote")
  /\ advanceToNextPrompt(c, cv[c].cur, cv[c].beforeLast)
  /\ UNCHANGED <<status, finished_at, submissions, inbox, hunt, finishedAt, prompts, pc,
                 fhTarget, votes, vload, allSubmissions, ballots>>
  /\ UNCHANGED <<joinVars, subVars, tallyVars, photoVars, bootVars, homeVars, nameVars>>

\* the insert failed: console.error, setError(error.message), return
CastVoteRowFail(c) ==
  /\ cv[c] # NoVote
  /\ casting[c] # NoBallot
  /\ casting' = [casting EXCEPT ![c] = NoBallot]
  /\ cv' = [cv EXCEPT ![c] = NoVote]
  /\ SetError(c, "castVote")
  /\ UNCHANGED <<lifeVars, votes, vload, allSubmissions, currentPromptIndex,
                 votedPromptIds, walk, ballots>>
  /\ UNCHANGED <<joinVars, subVars, tallyVars, photoVars, bootVars, homeVars, nameVars>>

NextCast ==
  \/ \E c \in Players : Skip(c)
  \/ \E c \in Players, s \in Players \X Prompts : CastVoteRow(c, s)
  \/ \E c \in Players : CastVoteRowInserted(c)
  \/ \E c \in Players : CastVoteRowFail(c)
  \/ \E c \in Players : TransitionToFinished(c)
  \/ \E c \in Players : TransitionToFinishedAck(c)
  \/ \E c \in Players : HuntChangeEvent(c)

SpecCast == InitCast /\ [][NextCast]_vars

\* client c's castVote call returns in this step
CastVoteReturns(c) == casting[c] # NoBallot /\ casting'[c] = NoBallot

\* client c's walk is as it was
WalkUnchanged(c) ==
  /\ votedPromptIds'[c] = votedPromptIds[c]
  /\ currentPromptIndex'[c] = currentPromptIndex[c]
  /\ tf'[c] = tf[c]

\* the advanceToNextPrompt of the render in which c pressed Vote has run:
\* its prompt is marked and the walk moved on or went to write finished
WalkAdvanced(c) ==
  /\ cv[c].cur \in votedPromptIds'[c]
  /\ \/ currentPromptIndex'[c] = currentPromptIndex[c] + 1
     \/ tf'[c] = "write"

C26_NoVoteAfterFinished ==
  [][status = "finished" => ballots' = ballots]_vars

\* ------------------------------------------------------------------------
\* SpecRejoin: the ensure-membership effect over whole hunt_players rows,
\* [player_id, role, display_name, finished_at].  The hunt exists and its
\* host p2 (session s3) is in it; p1 comes in from two sessions, and every
\* session reloads and joins again as often as it likes.
\* ------------------------------------------------------------------------
\* what playerName can be when the effect runs
Names == {"Ann", "Bob"}

InitRejoin ==
  /\ hunt_players = <<[player_id |-> "p2", role |-> "host", display_name |-> "Ann",
                       finished_at |-> "null"]>>
  /\ created = TRUE
  /\ hostPlayer = "p2"
  /\ jpc = [s \in Sessions |-> IF s = "s3" THEN "joined" ELSE "home"]
  /\ isHost = [s \in Sessions |-> s = "s3"]
  /\ InitLife
  /\ ParkedWalk
  /\ ParkedSub
  /\ ParkedTally
  /\ ParkedFail
  /\ ParkedPhoto
  /\ ParkedBoot
  /\ ParkedHome
  /\ ParkedCast
  /\ ParkedName

\* the player has a row (.single() gives data)
HasRow(rows, player) == KeyIndex(rows, player) # 0

\* "Check if already joined": existing decides between the upsert and the
\* fetch
RejoinSelect(s) ==
  /\ jpc[s] = "select"
  /\ jpc' = [jpc EXCEPT ![s] = IF HasRow(hunt_players, Owner[s]) THEN "fetch" ELSE "upsert"]
  /\ UNCHANGED <<hunt_players, created, hostPlayer, isHost>>
  /\ UNCHANGED <<lifeVars, walkVars, subVars, tallyVars, failVars, photoVars, bootVars,
                 homeVars, castVars, nameVars>>

\* the upsert of the membership effect without ignoreDuplicates
RejoinUpsertOverwrites(s, name) ==
  /\ jpc[s] = "upsert"
  /\ hunt_players' =
       UpsertOverwrite(hunt_players,
                       [player_id |-> Owner[s], role |-> "player",
                        display_name |-> name, finished_at |-> "null"])
  /\ jpc' = [jpc EXCEPT ![s] = "fetch"]
  /\ UNCHANGED <<created, hostPlayer, isHost>>
  /\ UNCHANGED <<lifeVars, walkVars, subVars, tallyVars, failVars, photoVars, bootVars,
                 homeVars, castVars, nameVars>>

\* upsert({hunt_id, player_id, display_name: playerName || "Anonymous", role:
\* "player"}, {onConflict: "hunt_id,player_id", ignoreDuplicates: true}); a
\* row that is inserted gets finished_at null
RejoinUpsert(s, name) ==
  /\ jpc[s] = "upsert"
  /\ hunt_players' =
       UpsertIgnoreDuplicates(hunt_players,
                              [player_id |-> Owner[s], role |-> "player",
                               display_name |-> name, finished_at |-> "null"])
  /\ jpc' = [jpc EXCEPT ![s] = "fetch"]
  /\ UNCHANGED <<created, hostPlayer, isHost>>
  /\ UNCHANGED <<lifeVars, walkVars, subVars, tallyVars, failVars, photoVars, bootVars,
                 homeVars, castVars, nameVars>>

\* "Always fetch fresh data": setFinishedAt, setIsHost(role === "host")
RejoinFetch(s) ==
  /\ jpc[s] = "fetch"
  /\ HasRow(hunt_players, Owner[s])
  /\ isHost' = [isHost EXCEPT ![s] =
                  hunt_players[KeyIndex(hunt_players, Owner[s])].role = "host"]
  /\ jpc' = [jpc EXCEPT ![s] = "joined"]
  /\ UNCHANGED <<hunt_players, created, hostPlayer>>
  /\ UNCHANGED <<lifeVars, walkVars, subVars, tallyVars, failVars, photoVars, bootVars,
                 homeVars, castVars, nameVars>>

\* finishHunt and undoFinish of a session in the hunt:
\* update({finished_at}).eq("hunt_id", huntId).eq("player_id", playerId)
SetFinishedAt(s, value) ==
  /\ jpc[s] = "joined"
  /\ HasRow(hunt_players, Owner[s])
  /\ hunt_players' =
       [hunt_players EXCEPT ![KeyIndex(hunt_players, Owner[s])].finished_at = value]
  /\ UNCHANGED <<created, hostPlayer, jpc, isHost>>
  /\ UNCHANGED <<lifeVars, walkVars, subVars, tallyVars, failVars, photoVars, bootVars,
                 homeVars, castVars, nameVars>>

NextRejoin ==
  \/ \E s \in Sessions : JoinHuntByCode(s)
  \/ \E s \in Sessions : RejoinSelect(s)
  \/ \E s \in Sessions, name \in Names : RejoinUpsert(s, name)
  \/ \E s \in Sessions : MembershipFail(s)
  \/ \E s \in Sessions : RejoinFetch(s)
  \/ \E s \in Sessions, value \in {"null", "set"} : SetFinishedAt(s, value)
  \/ \E s \in Sessions : Reload(s)
  \/ \E s \in Sessions : ChangeHunt(s)

SpecRejoin == InitRejoin /\ [][NextRejoin]_vars

\* a request of session s's membership effect is answered in this step
JoinStep(s) == jpc[s] \in {"select", "upsert"} /\ jpc'[s] # jpc[s]

\* C28: a step of a join, its select or its upsert, that meets a row of its
\* (hunt, player) pair leaves the membership rows as they are: role,
\* display_name and finished_at of the row are kept, also when the row was
\* written by another session between this join's select and its upsert.
C28_JoinLeavesExistingRow ==
  [][\A s \in Sessions :
       (JoinStep(s) /\ HasRow(hunt_players, Owner[s])) => hunt_players' = hunt_players]_vars

\* C28 witness: both sessions of p1 went through the join, the second to
\* write under another name than the first, and the host joined again after
\* a reload; p1 has the one row of the first writer, marked finished, and
\* the host's row is as it was.
C28_Witness ==
  /\ jpc = [s \in Sessions |-> "joined"]
  /\ isHost = [s \in Sessions |-> s = "s3"]
  /\ hunt_players = <<[player_id |-> "p2", role |-> "host", display_name |-> "Ann",
                       finished_at |-> "null"],
                      [player_id |-> "p1", role |-> "player", display_name |-> "Bob",
                       finished_at |-> "set"]>>

\* ------------------------------------------------------------------------
\* SpecLeave: an active hunt whose members finish, undo, go back to the home
\* screen, leave the game from their list of games and come in again.  A
\* client on the home screen has hunt null.
\* ------------------------------------------------------------------------
\* Both players are members of the started hunt and have it on screen.
InitLeave ==
  /\ status = "active"
  /\ finished_at = [p \in Players |-> "null"]
  /\ submissions = {}
  /\ inbox = [c \in Players |-> NONE]
  /\ hunt = [c \in Players |-> "active"]
  /\ finishedAt = [c \in Players |-> FALSE]
  /\ prompts = [c \in Players |-> <<"a", "b">>]
  /\ pc = [c \in Players |-> "idle"]
  /\ fhTarget = [c \in Players |-> NONE]
  /\ tf = [c \in Players |-> "idle"]
  /\ ParkedWalk
  /\ ParkedJoin
  /\ ParkedSub
  /\ ParkedTally
  /\ ParkedFail
  /\ ParkedPhoto
  /\ ParkedBoot
  /\ ParkedHome
  /\ ParkedCast
  /\ ParkedName

\* changeHunt: setHuntId(null), setHunt(null), setFinishedAt(null); the
\* prompts are loaded again with the hunt
ChangeHuntLife(c) ==
  /\ hunt[c] # NONE
  /\ pc[c] = "idle"
  /\ tf[c] = "idle"
  /\ hunt' = [hunt EXCEPT ![c] = NONE]
  /\ finishedAt' = [finishedAt EXCEPT ![c] = FALSE]
  /\ UNCHANGED <<status, finished_at, submissions, inbox, prompts, pc, fhTarget, tf>>
  /\ UNCHANGED <<walkVars, joinVars, subVars, tallyVars, failVars, photoVars, bootVars,
                 homeVars, castVars, nameVars>>

\* resumeGame / joinHuntByCode of a member: the hunt load sets hunt, the
\* membership effect finds the row and sets finishedAt from it
ResumeGameLife(c) ==
  /\ hunt[c] = NONE
  /\ finished_at[c] # NONE
  /\ hunt' = [hunt EXCEPT ![c] = status]
  /\ finishedAt' = [finishedAt EXCEPT ![c] = finished_at[c] = "set"]
  /\ UNCHANGED <<status, finished_at, submissions, inbox, prompts, pc, fhTarget, tf>>
  /\ UNCHANGED <<walkVars, joinVars, subVars, tallyVars, failVars, photoVars, bootVars,
                 homeVars, castVars, nameVars>>

\* a delete().eq("hunt_id", gameHuntId) without the player_id filter
LeaveGameWholeHunt(c) ==
  /\ hunt[c] = NONE
  /\ finished_at[c] # NONE
  /\ finished_at' = [p \in Players |-> NONE]
  /\ UNCHANGED <<status, submissions, inbox, hunt, finishedAt, prompts, pc, fhTarget, tf>>
  /\ UNCHANGED <<walkVars, joinVars, subVars, tallyVars, failVars, photoVars, bootVars,
                 homeVars, castVars, nameVars>>

\* leaveGame(gameHuntId) from the list of the player's games, confirmed:
\* delete().eq("hunt_id", gameHuntId).eq("player_id", playerId)
LeaveGame(c) ==
  /\ hunt[c] = NONE
  /\ finished_at[c] # NONE
  /\ finished_at' = [finished_at EXCEPT ![c] = NONE]
  /\ UNCHANGED <<status, submissions, inbox, hunt, finishedAt, prompts, pc, fhTarget, tf>>
  /\ UNCHANGED <<walkVars, joinVars, subVars, tallyVars, failVars, photoVars, bootVars,
                 homeVars, castVars, nameVars>>

\* the delete fails: setError(error.message), return
LeaveGameFail(c) ==
  /\ hunt[c] = NONE
  /\ finished_at[c] # NONE
  /\ SetError(c, "leaveGame")
  /\ UNCHANGED <<lifeVars, walkVars, joinVars, subVars, tallyVars, photoVars, bootVars,
                 homeVars, castVars, nameVars>>

\* the steps that go on without a user
FinishHuntGoesOn(c) ==
  \/ \E ok \in BOOLEAN : FinishHuntCheck(c, ok)
  \/ FinishHuntWrite(c)
  \/ FinishHuntAck(c)
  \/ HuntChangeEvent(c)

NextLeave ==
  \/ \E c \in Players : HuntChangeEvent(c)
  \/ \E c \in Players : EnsureMembership(c)
  \/ \E c \in Players : Submit(c, "a")
  \/ \E c \in Players : FinishHunt(c)
  \/ \E c \in Players, ok \in BOOLEAN : FinishHuntCheck(c, ok)
  \/ \E c \in Players : FinishHuntWrite(c)
  \/ \E c \in Players : FinishHuntAck(c)
  \/ \E c \in Players : UndoFinish(c)
  \/ \E c \in Players : ChangeHuntLife(c)
  \/ \E c \in Players : ResumeGameLife(c)
  \/ \E c \in Players : LeaveGame(c)
  \/ \E c \in Players : LeaveGameFail(c)

SpecLeave == InitLeave /\ [][NextLeave]_vars

\* every request is answered and every event delivered
SpecLeaveLive ==
  SpecLeave /\ \A c \in Players : WF_vars(FinishHuntGoesOn(c))

\* C31: a step that removes a player's membership row removes that row only:
\* the other members' rows, the hunt's status, the submissions and the votes
\* are as they were; a leaveGame whose delete fails reports through the
\* error state and leaves every row in place.
C31_LeaveGameOnlyOwnRow ==
  [][\A c \in Players :
       /\ (finished_at[c] # NONE /\ finished_at'[c] = NONE)
            => /\ \A q \in Players \ {c} : finished_at'[q] = finished_at[q]
               /\ status' = status
               /\ inbox' = inbox
               /\ submissions' = submissions
               /\ votes' = votes
       /\ (reported'[c] # reported[c] /\ reported'[c].call = "leaveGame")
            => /\ finished_at' = finished_at
               /\ reported'[c].how = "setError"]_vars

\* C31 witness: p2 has left the hunt, p1 is still a member and finished, the
\* submissions of both are in place; a leaveGame of p1 failed before and is
\* reported.
C31_Witness ==
  /\ finished_at = [p \in Players |-> IF p = "p1" THEN "set" ELSE NONE]
  /\ submissions = {<<"p1", "a">>, <<"p2", "a">>}
  /\ reported["p1"] = [call |-> "leaveGame", how |-> "setError"]
  /\ status = "active"

\* C38: if from some point on the active hunt has a member and every
\* membership row has finished_at set, the status eventually leaves active
\* with no further user action, whether the last member finished or the
\* last unfinished member's row was deleted by leaveGame.
C38_AllFinishedLeavesActive ==
  <>[]AllFinished(finished_at) => <>(status # "active")

\* ------------------------------------------------------------------------
\* SpecRow: the hunts table by whole rows, [pack, code, completion_mode,
\* required_prompt_count, status], under every write the page makes to it.
\* The page writes to the hunt it has selected, whatever screen its local
\* hunt.status makes it show.
\* ------------------------------------------------------------------------
\* Cap on the number of rows of the hunts table (SpecRow)
MaxHuntRows == 2
CompletionModes == {"anytime", "all_required"}
\* createRequiredCount.trim() === "" ? null : Number(createRequiredCount)
RequiredCounts == {NONE, "3"}

\* update(patch).eq("id", huntId): the columns named by the patch get its
\* values, the others keep theirs
UpdateRow(row, patch) ==
  [f \in DOMAIN row |-> IF f \in DOMAIN patch THEN patch[f] ELSE row[f]]

\* a patch that also names the pack
StatusAndPackPatch(new) == [status |-> new, pack |-> "X"]

\* { status: "active" }, { status: "voting" }, { status: "finished" }
StatusPatch(new) == [status |-> new]

\* no hunt exists, the page is on its home screen
InitRow ==
  /\ ParkedHome
  /\ InitLife
  /\ ParkedWalk
  /\ ParkedJoin
  /\ ParkedSub
  /\ ParkedTally
  /\ ParkedFail
  /\ ParkedPhoto
  /\ ParkedBoot
  /\ ParkedCast
  /\ ParkedName

\* createHunt: insert({code, pack, completion_mode, required_prompt_count,
\* title, status: "lobby"}), then setHuntId(hunt.id)
CreateHuntRow(pack, mode, count) ==
  /\ huntId = 0
  /\ Len(hunts) < MaxHuntRows
  /\ hunts' = Append(hunts, [pack |-> pack, code |-> Codes[Len(hunts) + 1],
                             completion_mode |-> mode, required_prompt_count |-> count,
                             status |-> "lobby"])
  /\ SetHuntId(Len(hunts) + 1)
  /\ UNCHANGED <<placed, homeHunt, homePrompts, promptLoads, joining, createPack, error>>
  /\ UNCHANGED <<lifeVars, walkVars, joinVars, subVars, tallyVars, failVars, photoVars,
                 bootVars, castVars, nameVars>>

\* startGame (new = "active"), finishHunt (new = "voting" or "finished") and
\* transitionToFinished (new = "finished"): update of the selected hunt
UpdateStatusRow(new) ==
  /\ huntId # 0
  /\ hunts' = [hunts EXCEPT ![huntId] = UpdateRow(@, StatusPatch(new))]
  /\ UNCHANGED <<placed, huntId, homeHunt, homePrompts, huntLoads, promptLoads, joining,
                 createPack, error>>
  /\ UNCHANGED <<lifeVars, walkVars, joinVars, subVars, tallyVars, failVars, photoVars,
                 bootVars, castVars, nameVars>>

NextRow ==
  \/ \E pack \in Packs, mode \in CompletionModes, count \in RequiredCounts :
       CreateHuntRow(pack, mode, count)
  \/ \E new \in {"active", "voting", "finished"} : UpdateStatusRow(new)
  \/ \E h \in HuntIds : ResumeGame(h)
  \/ ChangeHuntHome

SpecRow == InitRow /\ [][NextRow]_vars

\* the columns of a hunts row other than status
Created(row) == <<row.pack, row.code, row.completion_mode, row.required_prompt_count>>

\* C32: a hunts row that exists keeps its pack, code, completion_mode and
\* required_prompt_count in every step: rows are not removed, and of a row
\* only the status changes.
C32_OnlyStatusChanges ==
  [][/\ Len(hunts') >= Len(hunts)
     /\ \A h \in HuntIds : Created(hunts'[h]) = Created(hunts[h])]_vars

\* C32 witness: a hunt created with pack Y, all_required and a required
\* count has been started, sent to voting and finished, and a second hunt
\* has been created and started since.
C32_Witness ==
  /\ Len(hunts) = 2
  /\ hunts[1] = [pack |-> "Y", code |-> "H1", completion_mode |-> "all_required",
                 required_prompt_count |-> "3", status |-> "finished"]
  /\ hunts[2].status = "active"

\* ------------------------------------------------------------------------
\* SpecSort: the prompt list as shown, sortedPrompts, over every play order
\* of three prompts and every assignment of statuses
\* ------------------------------------------------------------------------
ListPrompts == {"a", "b", "c"}
\* type SubmissionStatus
SubmissionStatuses == {"idle", "saving", "needs_photo", "uploading", "saved", "error"}

\* isIncomplete
isIncomplete(st) == st \in {"idle", "needs_photo", "error"}

\* the comparator of sortedPrompts: -1, 1 or 0
ComparePrompts(statusA, statusB) ==
  IF isIncomplete(statusA) /\ ~isIncomplete(statusB) THEN -1
  ELSE IF ~isIncomplete(statusA) /\ isIncomplete(statusB) THEN 1
  ELSE 0

\* [...prompts].sort(comparator): Array.prototype.sort is stable, so the
\* result is the one of inserting each prompt behind the prompts that do not
\* sort after it
InsertPrompt(sorted, e, st) ==
  LET before == SelectSeq(sorted, LAMBDA x : ComparePrompts(st[x], st[e]) <= 0)
      after == SelectSeq(sorted, LAMBDA x : ComparePrompts(st[x], st[e]) > 0)
  IN before \o <<e>> \o after

RECURSIVE SortPrompts(_, _, _)
SortPrompts(ps, st, i) ==
  IF i = 0 THEN <<>> ELSE InsertPrompt(SortPrompts(ps, st, i - 1), ps[i], st)

\* sortedPrompts of the page (statusByPromptId[id] ?? "idle": every prompt
\* has its status here)
sortedPrompts == SortPrompts(prompts[Host], statusByPromptId, Len(prompts[Host]))

\* any play order the shuffle can give, any statuses
InitSort ==
  /\ status = "active"
  /\ finished_at = [p \in Players |-> "null"]
  /\ submissions = {}
  /\ inbox = [c \in Players |-> NONE]
  /\ hunt = [c \in Players |-> "active"]
  /\ finishedAt = [c \in Players |-> FALSE]
  /\ \E order \in Perms(ListPrompts) : prompts = [c \in Players |-> order]
  /\ pc = [c \in Players |-> "idle"]
  /\ fhTarget = [c \in Players |-> NONE]
  /\ tf = [c \in Players |-> "idle"]
  /\ photo_path = NoPhotos
  /\ blobs = {}
  /\ uploads = 0
  /\ statusByPromptId \in [ListPrompts -> SubmissionStatuses]
  /\ photoUrlByPromptId = NoUrls
  /\ attach = NoAttach
  /\ ParkedWalk
  /\ ParkedJoin
  /\ ParkedSub
  /\ ParkedTally
  /\ ParkedFail
  /\ ParkedBoot
  /\ ParkedHome
  /\ ParkedCast
  /\ ParkedName

\* setStatusByPromptId((p) => ({ ...p, [promptId]: st }))
SetStatus(p, st) ==
  /\ statusByPromptId' = [statusByPromptId EXCEPT ![p] = st]
  /\ UNCHANGED <<photo_path, blobs, uploads, photoUrlByPromptId, attach>>
  /\ UNCHANGED <<lifeVars, walkVars, joinVars, subVars, tallyVars, failVars, bootVars,
                 homeVars, castVars, nameVars>>

NextSort ==
  \E p \in ListPrompts, st \in SubmissionStatuses : SetStatus(p, st)

SpecSort == InitSort /\ [][NextSort]_vars

\* the place of prompt p in a list
PlaceIn(list, p) == CHOOSE i \in DOMAIN list : list[i] = p

\* the player has completed prompt p: its photo is saved
Completed(p) == statusByPromptId[p] = "saved"

\* C33: in the list as shown every prompt not yet completed comes before
\* every completed one, and two prompts of the same group stand in the order
\* the shuffle gave them, whatever the statuses are.
C33_SortedIsStablePartition ==
  \A i \in DOMAIN sortedPrompts, j \in DOMAIN sortedPrompts :
    i < j =>
      LET p == sortedPrompts[i]
          q == sortedPrompts[j]
      IN /\ ~(Completed(p) /\ ~Completed(q))
         /\ (Completed(p) <=> Completed(q))
              => PlaceIn(prompts[Host], p) < PlaceIn(prompts[Host], q)

\* ------------------------------------------------------------------------
\* SpecShuffle: the play order of a client that stays in the hunt, from the
\* load of the hunt through the start of the game, with members coming in
\* and submission statuses changing.  The one hunt has the one pack.
\* ------------------------------------------------------------------------
\* data of the prompts select, in the order the table gives it
Fetched == <<"a", "b", "c">>

\* [shuffled[i], shuffled[j]] = [shuffled[j], shuffled[i]]
Swap(arr, i, j) == [arr EXCEPT ![i] = arr[j], ![j] = arr[i]]

\* the values Math.floor(Math.random() * (i + 1)) can take in the passes of
\* the loop (positions counted from 1: at position i one of 1..i)
RandomPicks == {js \in [DOMAIN Fetched -> DOMAIN Fetched] : \A i \in DOMAIN js : js[i] <= i}

\* for (let i = shuffled.length - 1; i > 0; i--) { j = ...; swap }
RECURSIVE FisherYates(_, _, _)
FisherYates(arr, js, i) ==
  IF i <= 1 THEN arr ELSE FisherYates(Swap(arr, i, js[i]), js, i - 1)

\* hunt?.pack of a local hunt state
LocalPack(h) == IF h = NONE THEN NONE ELSE "X"

\* an effect that lists hunt itself among its dependencies
PromptsEffectOnHunt(before, after) == before # after

\* the prompts effect runs in the render after hunt?.pack changed
\* (dependencies [hunt?.pack])
PromptsEffectDue(before, after) == LocalPack(before) # LocalPack(after)

InitShuffle ==
  /\ InitLife
  /\ photo_path = NoPhotos
  /\ blobs = {}
  /\ uploads = 0
  /\ statusByPromptId = [p \in ListPrompts |-> "idle"]
  /\ photoUrlByPromptId = NoUrls
  /\ attach = NoAttach
  /\ ParkedWalk
  /\ ParkedJoin
  /\ ParkedSub
  /\ ParkedTally
  /\ ParkedFail
  /\ ParkedBoot
  /\ ParkedHome
  /\ ParkedCast
  /\ ParkedName

\* the prompts select answers: shuffle, setPrompts(shuffled)
ShufflePrompts(c, js) ==
  /\ hunt[c] # NONE
  /\ prompts[c] = <<>>
  /\ prompts' = [prompts EXCEPT ![c] = FisherYates(Fetched, js, Len(Fetched))]
  /\ UNCHANGED <<status, finished_at, submissions, inbox, hunt, finishedAt, pc,
                 fhTarget, tf>>
  /\ UNCHANGED <<walkVars, joinVars, subVars, tallyVars, failVars, photoVars, bootVars,
                 homeVars, castVars, nameVars>>

\* the realtime handler merges payload.new into hunt; when that makes the
\* prompts effect run, the prompts are fetched and shuffled again
ShuffleHuntEvent(c) ==
  /\ inbox[c] # NONE
  /\ hunt' = [hunt EXCEPT ![c] = MergeHunt(@, inbox[c])]
  /\ inbox' = [inbox EXCEPT ![c] = NONE]
  /\ prompts' = [prompts EXCEPT ![c] =
                   IF PromptsEffectDue(hunt[c], hunt'[c]) THEN <<>> ELSE @]
  /\ UNCHANGED <<status, finished_at, submissions, finishedAt, pc, fhTarget, tf>>
  /\ UNCHANGED <<walkVars, joinVars, subVars, tallyVars, failVars, photoVars, bootVars,
                 homeVars, castVars, nameVars>>

NextShuffle ==
  \/ \E c \in Players : LoadHunt(c)
  \/ \E c \in Players, js \in RandomPicks : ShufflePrompts(c, js)
  \/ \E c \in Players : ShuffleHuntEvent(c)
  \/ \E c \in Players : EnsureMembership(c)
  \/ \E c \in Players : StartGame(c)
  \/ \E c \in Players : StartGameAck(c)
  \/ \E st \in SubmissionStatuses : SetStatus("a", st)

SpecShuffle == InitShuffle /\ [][NextShuffle]_vars

\* list holds every element of data once and nothing else
IsPermutation(list, data) ==
  /\ Len(list) = Len(data)
  /\ \A k \in DOMAIN data : Cardinality({i \in DOMAIN list : list[i] = data[k]}) = 1

\* C34: the play order a client sets is a permutation of the prompts
\* fetched, and once set it stays as it is through hunt status events,
\* members coming in and submission statuses changing.
C34_ShuffleOnceAndPermutation ==
  [][\A c \in Players :
       /\ prompts'[c] # <<>> => IsPermutation(prompts'[c], Fetched)
       /\ prompts[c] # <<>> => prompts'[c] = prompts[c]]_vars

\* C34 witness: p2 has the order c, a, b, set while the hunt was in the
\* lobby; since then p2 became a member, the game was started and p2 got the
\* event, and prompt a is saved.
C34_Witness ==
  /\ prompts["p2"] = <<"c", "a", "b">>
  /\ hunt["p2"] = "active"
  /\ finished_at["p2"] = "null"
  /\ statusByPromptId["a"] = "saved"
  /\ inbox["p2"] = NONE
  /\ pc[Host] = "sg_ack"

\* ------------------------------------------------------------------------
\* SpecName: the members of the hunt edit their names in the players list,
\* before and after the game is started.  Names are sequences of characters.
\* ------------------------------------------------------------------------
MaxNameLen == 2
Chars == {" ", "x"}

\* what the name input can hold
NameInputs == UNION {[1..n -> Chars] : n \in 0..MaxNameLen}

Anonymous == <<"A", "n", "o", "n", "y", "m", "o", "u", "s">>

\* String.prototype.trim, first the front, then the end
RECURSIVE TrimStart(_)
TrimStart(str) ==
  IF str # <<>> /\ Head(str) = " " THEN TrimStart(Tail(str)) ELSE str

RECURSIVE TrimEnd(_)
TrimEnd(str) ==
  IF str # <<>> /\ str[Len(str)] = " " THEN TrimEnd(SubSeq(str, 1, Len(str) - 1)) ELSE str

Trim(str) == TrimEnd(TrimStart(str))

\* newName || "Anonymous": the input as typed unless it is empty
DisplayNameUntrimmed(newName) == IF newName = <<>> THEN Anonymous ELSE newName

\* const displayName = newName.trim() || "Anonymous"
DisplayName(newName) == IF Trim(newName) = <<>> THEN Anonymous ELSE Trim(newName)

InitName ==
  /\ hunt_players = <<[player_id |-> "p1", role |-> "host", display_name |-> <<"x">>,
                       finished_at |-> "null"],
                      [player_id |-> "p2", role |-> "player", display_name |-> <<"x", "x">>,
                       finished_at |-> "null"]>>
  /\ created = TRUE
  /\ hostPlayer = "p1"
  /\ jpc = [s \in Sessions |-> "joined"]
  /\ isHost = [s \in Sessions |-> Owner[s] = "p1"]
  /\ status = "lobby"
  /\ finished_at = [p \in Players |-> "null"]
  /\ submissions = {}
  /\ inbox = [c \in Players |-> NONE]
  /\ hunt = [c \in Players |-> "lobby"]
  /\ finishedAt = [c \in Players |-> FALSE]
  /\ prompts = [c \in Players |-> <<"a", "b">>]
  /\ pc = [c \in Players |-> "idle"]
  /\ fhTarget = [c \in Players |-> NONE]
  /\ tf = [c \in Players |-> "idle"]
  /\ playerName = [c \in Players |-> hunt_players[KeyIndex(hunt_players, c)].display_name]
  /\ ParkedWalk
  /\ ParkedSub
  /\ ParkedTally
  /\ ParkedFail
  /\ ParkedPhoto
  /\ ParkedBoot
  /\ ParkedHome
  /\ ParkedCast

\* .update({ display_name }).eq("hunt_id", huntId).eq("player_id", playerId)
SetDisplayName(rows, player, name) ==
  [i \in DOMAIN rows |->
     IF rows[i].player_id = player THEN [rows[i] EXCEPT !.display_name = name] ELSE rows[i]]

\* Save in the players list of the lobby screen; the update succeeds:
\* savePlayerName(displayName)
UpdateDisplayName(c, newName) ==
  /\ hunt[c] = "lobby"
  /\ hunt_players' = SetDisplayName(hunt_players, c, DisplayName(newName))
  /\ playerName' = [playerName EXCEPT ![c] = DisplayName(newName)]
  /\ UNCHANGED <<created, hostPlayer, jpc, isHost>>
  /\ UNCHANGED <<lifeVars, walkVars, subVars, tallyVars, failVars, photoVars, bootVars,
                 homeVars, castVars>>

\* the update fails: console.error, setError(error.message), return
UpdateDisplayNameFail(c, newName) ==
  /\ hunt[c] = "lobby"
  /\ SetError(c, "updateDisplayName")
  /\ UNCHANGED <<lifeVars, walkVars, joinVars, subVars, tallyVars, photoVars, bootVars,
                 homeVars, castVars, nameVars>>

NextName ==
  \/ \E c \in Players, newName \in NameInputs : UpdateDisplayName(c, newName)
  \/ \E c \in Players, newName \in NameInputs : UpdateDisplayNameFail(c, newName)
  \/ \E c \in Players : StartGame(c)
  \/ \E c \in Players : StartGameAck(c)
  \/ \E c \in Players : HuntChangeEvent(c)

SpecName == InitName /\ [][NextName]_vars

Blank(str) == \A i \in DOMAIN str : str[i] = " "

\* out is str without the blanks at its two ends
IsTrimOf(out, str) ==
  /\ out # <<>>
  /\ Head(out) # " "
  /\ out[Len(out)] # " "
  /\ \E a \in 0..Len(str) : /\ a + Len(out) <= Len(str)
                            /\ SubSeq(str, a + 1, a + Len(out)) = out
                            /\ Blank(SubSeq(str, 1, a))
                            /\ Blank(SubSeq(str, a + Len(out) + 1, Len(str)))

RowOf(rows, player) == rows[KeyIndex(rows, player)]

MaxInFlight == 2

InitClick ==
  /\ status = "voting"
  /\ finished_at = [p \in Players |-> "set"]
  /\ submissions = {<<"p1", "a">>, <<"p2", "a">>, <<"p1", "b">>}
  /\ inbox = [c \in Players |-> NONE]
  /\ hunt = [c \in Players |-> "voting"]
  /\ finishedAt = [c \in Players |-> TRUE]
  /\ prompts = [c \in Players |-> IF c = Host THEN <<"a", "b">> ELSE <<"b", "a">>]
  /\ pc = [c \in Players |-> "idle"]
  /\ fhTarget = [c \in Players |-> NONE]
  /\ tf = [c \in Players |-> "idle"]
  /\ votes = 0
  /\ vload = [c \in Players |-> "idle"]
  /\ allSubmissions = [c \in Players |-> submissions]
  /\ currentPromptIndex = [c \in Players |-> 0]
  /\ votedPromptIds = [c \in Players |-> {}]
  /\ cv = [c \in Players |-> NoVote]
  /\ walk = [c \in Players |-> [adv |-> 0]]
  /\ ballots = <<>>
  /\ casting = [c \in Players |-> <<>>]
  /\ ParkedName
  /\ ParkedJoin
  /\ ParkedSub
  /\ ParkedTally
  /\ ParkedFail
  /\ ParkedPhoto
  /\ ParkedBoot
  /\ ParkedHome

\* number of castVote calls in flight
InFlight == Len(casting["p1"]) + Len(casting["p2"])

\* seq without its k-th element
RemoveAt(seq, k) == SubSeq(seq, 1, k - 1) \o SubSeq(seq, k + 1, Len(seq))

\* the Vote button of a submission, rendered while !hasVoted: castVote up to
\* its insert.  Nothing records that a call is in flight.
VoteClick(c, s) ==
  /\ Screen(c) = "voting"
  /\ s \in allSubmissions[c]
  /\ s[2] = CurrentPrompt(c)
  /\ s[2] \notin votedPromptIds[c]
  /\ Len(casting[c]) < MaxInFlight
  /\ Len(ballots) + InFlight < MaxBallots
  /\ casting' = [casting EXCEPT ![c] =
                   Append(@, [row |-> [submission_id |-> s, player_id |-> c,
                                       category |-> "best"],
                              cur |-> CurrentPrompt(c),
                              beforeLast |-> BeforeLast(c)])]
  /\ UNCHANGED <<lifeVars, walkVars, ballots>>
  /\ UNCHANGED <<joinVars, subVars, tallyVars, failVars, photoVars, bootVars, homeVars,
                 nameVars>>

\* an insert succeeded: advanceToNextPrompt() of the render that was clicked
VoteInserted(c, k) ==
  /\ k \in DOMAIN casting[c]
  /\ ballots' = Append(ballots, casting[c][k].row)
  /\ votes' = Len(ballots')
  /\ casting' = [casting EXCEPT ![c] = RemoveAt(@, k)]
  /\ advanceToNextPrompt(c, casting[c][k].cur, casting[c][k].beforeLast)
  /\ UNCHANGED <<status, finished_at, submissions, inbox, hunt, finishedAt, prompts, pc,
                 fhTarget, vload, allSubmissions, cv>>
  /\ UNCHANGED <<joinVars, subVars, tallyVars, failVars, photoVars, bootVars, homeVars,
                 nameVars>>

\* an insert failed: console.error, setError(error.message), return
VoteFailed(c, k) ==
  /\ k \in DOMAIN casting[c]
  /\ casting' = [casting EXCEPT ![c] = RemoveAt(@, k)]
  /\ SetError(c, "castVote")
  /\ UNCHANGED <<lifeVars, walkVars, ballots>>
  /\ UNCHANGED <<joinVars, subVars, tallyVars, photoVars, bootVars, homeVars, nameVars>>

\* "Skip this prompt" with castVote calls in flight
SkipClick(c) ==
  /\ Screen(c) = "voting"
  /\ VotingList(c) # <<>>
  /\ advanceToNextPrompt(c, CurrentPrompt(c), BeforeLast(c))
  /\ UNCHANGED <<status, finished_at, submissions, inbox, hunt, finishedAt, prompts, pc,
                 fhTarget, votes, vload, allSubmissions, cv>>
  /\ UNCHANGED <<joinVars, subVars, tallyVars, failVars, photoVars, bootVars, homeVars,
                 castVars, nameVars>>

NextClick ==
  \/ \E c \in Players, s \in Players \X Prompts : VoteClick(c, s)
  \/ \E c \in Players, k \in 1..MaxInFlight : VoteInserted(c, k)
  \/ \E c \in Players, k \in 1..MaxInFlight : VoteFailed(c, k)
  \/ \E c \in Players : SkipClick(c)
  \/ \E c \in Players : TransitionToFinished(c)
  \/ \E c \in Players : TransitionToFinishedAck(c)
  \/ \E c \in Players : HuntChangeEvent(c)

SpecClick == InitClick /\ [][NextClick]_vars

\* the votes rows of player c for submissions of prompt p
BallotsOf(c, p) ==
  {i \in DOMAIN ballots : ballots[i].player_id = c /\ ballots[i].submission_id[2] = p}

\* C36: within one voting walk the votes table holds at most one row of a
\* client for each prompt.
C36_OneVotePerPrompt ==
  \A c \in Players, p \in Prompts : Cardinality(BallotsOf(c, p)) <= 1

\* C37: during a voting walk over N >= 1 prompts with submissions the
\* current prompt index of a client stays within 0..N-1.
C37_IndexWithinWalk ==
  \A c \in Players :
    VotingList(c) # <<>> => currentPromptIndex[c] \in 0..(Len(VotingList(c)) - 1)

\* ------------------------------------------------------------------------
\* SpecSwitch: one page of player 1 that moves between two active hunts of
\* the same pack, and one prompt of that pack.  A submissions row of the
\* prompt is [hunt_id, player_id, photo]; bootLoads holds the own-submissions
\* selects that are sent and not yet answered, each with the hunt it asks for.
\* ------------------------------------------------------------------------
\* the player played hunt 1 before and left a row without a photo there
InitSwitch ==
  /\ hunts = <<"X", "X">>
  /\ placed = {}
  /\ huntId = 0
  /\ homeHunt = 0
  /\ homePrompts = NONE
  /\ huntLoads = {}
  /\ promptLoads = {}
  /\ joining = NONE
  /\ createPack = ""
  /\ error = NONE
  /\ players = 1
  /\ stored = 1
  /\ playerId = 1
  /\ ensurePlayer = "idle"
  /\ own_rows = <<[hunt_id |-> 1, player_id |-> 1, photo |-> FALSE]>>
  /\ ownId = 0
  /\ ownStatus = "idle"
  /\ bootLoads = {}
  /\ InitLife
  /\ ParkedWalk
  /\ ParkedJoin
  /\ ParkedSub
  /\ ParkedTally
  /\ ParkedFail
  /\ ParkedPhoto
  /\ ParkedCast
  /\ ParkedName

\* what the select .eq("hunt_id", h).eq("player_id", q) makes the page set
\* for the prompt: the id of the last such row and saved or needs_photo, or
\* nothing at all
HuntRowsResult(rows, h, q) ==
  LET mine == {i \in DOMAIN rows : rows[i].hunt_id = h /\ rows[i].player_id = q}
  IN IF mine = {}
       THEN [id |-> 0, status |-> "idle"]
       ELSE LET last == CHOOSE i \in mine : \A j \in mine : j <= i
            IN [id |-> last,
                status |-> IF rows[last].photo THEN "saved" ELSE "needs_photo"]

\* resumeGame(h), or joinHuntByCode found hunt h: setHuntId(h); the
\* own-submissions effect runs and sends its select
SwitchSetHuntId(h) ==
  /\ huntId = 0
  /\ huntId' = h
  /\ bootLoads' = bootLoads \cup {[hunt_id |-> h, player_id |-> playerId]}
  /\ UNCHANGED <<hunts, placed, homeHunt, homePrompts, huntLoads, promptLoads, joining,
                 createPack, error>>
  /\ UNCHANGED <<players, stored, playerId, ensurePlayer, own_rows, ownId, ownStatus>>
  /\ UNCHANGED <<lifeVars, walkVars, joinVars, subVars, tallyVars, failVars, photoVars,
                 castVars, nameVars>>

\* changeHunt: setHuntId(null), setStatusByPromptId({}),
\* setSubmissionIdByPromptId({}); a select in flight stays in flight
SwitchChangeHunt ==
  /\ huntId # 0
  /\ huntId' = 0
  /\ ownId' = 0
  /\ ownStatus' = "idle"
  /\ UNCHANGED <<hunts, placed, homeHunt, homePrompts, huntLoads, promptLoads, joining,
                 createPack, error>>
  /\ UNCHANGED <<players, stored, playerId, ensurePlayer, own_rows, bootLoads>>
  /\ UNCHANGED <<lifeVars, walkVars, joinVars, subVars, tallyVars, failVars, photoVars,
                 castVars, nameVars>>

\* a select is answered: setSubmissionIdByPromptId(nextSubmissionIds),
\* setStatusByPromptId(nextStatus), whatever huntId is by now
SwitchLoadApply(r) ==
  /\ r \in bootLoads
  /\ bootLoads' = bootLoads \ {r}
  /\ ownId' = HuntRowsResult(own_rows, r.hunt_id, r.player_id).id
  /\ ownStatus' = HuntRowsResult(own_rows, r.hunt_id, r.player_id).status
  /\ UNCHANGED <<players, stored, playerId, ensurePlayer, own_rows>>
  /\ UNCHANGED <<lifeVars, walkVars, joinVars, subVars, tallyVars, failVars, photoVars,
                 homeVars, castVars, nameVars>>

\* a select fails: console.error, return
SwitchLoadFail(r) ==
  /\ r \in bootLoads
  /\ bootLoads' = bootLoads \ {r}
  /\ UNCHANGED <<players, stored, playerId, ensurePlayer, own_rows, ownId, ownStatus>>
  /\ UNCHANGED <<lifeVars, walkVars, joinVars, subVars, tallyVars, failVars, photoVars,
                 homeVars, castVars, nameVars>>

\* a click on the prompt: ensureSubmission returns the id the page holds, or
\* inserts a row for huntId and playerId
SwitchPromptClick ==
  /\ huntId # 0
  /\ ownStatus \notin {"saving", "uploading"}
  /\ IF ownId # 0
       THEN UNCHANGED <<own_rows, ownId, ownStatus>>
       ELSE /\ Len(own_rows) < MaxOwnRows
            /\ own_rows' = Append(own_rows, [hunt_id |-> huntId, player_id |-> playerId,
                                             photo |-> FALSE])
            /\ ownId' = Len(own_rows) + 1
            /\ ownStatus' = "needs_photo"
  /\ UNCHANGED <<players, stored, playerId, ensurePlayer, bootLoads>>
  /\ UNCHANGED <<lifeVars, walkVars, joinVars, subVars, tallyVars, failVars, photoVars,
                 homeVars, castVars, nameVars>>

\* onFileSelected: submissionId = submissionIdByPromptId[promptId]; upload;
\* .update({ photo_path: path }).eq("id", submissionId); saved
SwitchAttach ==
  /\ huntId # 0
  /\ ownId # 0
  /\ ownStatus \notin {"saving", "uploading"}
  /\ own_rows' = [own_rows EXCEPT ![ownId].photo = TRUE]
  /\ ownStatus' = "saved"
  /\ UNCHANGED <<players, stored, playerId, ensurePlayer, ownId, bootLoads>>
  /\ UNCHANGED <<lifeVars, walkVars, joinVars, subVars, tallyVars, failVars, photoVars,
                 homeVars, castVars, nameVars>>

\* the selects the page can send
SwitchLoads == [hunt_id : {1, 2}, player_id : {1}]

NextSwitch ==
  \/ \E h \in {1, 2} : SwitchSetHuntId(h)
  \/ SwitchChangeHunt
  \/ \E r \in SwitchLoads : SwitchLoadApply(r)
  \/ \E r \in SwitchLoads : SwitchLoadFail(r)
  \/ SwitchPromptClick
  \/ SwitchAttach

SpecSwitch == InitSwitch /\ [][NextSwitch]_vars

\* C40: the photo_path update of onFileSelected goes to a submissions row
\* of the page's current hunt and current player.
C40_PhotoWriteTargetsCurrentHunt ==
  [][SwitchAttach => /\ own_rows[ownId].hunt_id = huntId
                     /\ own_rows[ownId].player_id = playerId]_vars
====
